---- MODULE Spec2Model ----
(***************************************************************************)
(* A model of tinyexpr (src/tinyexpr.c): the tokenizer next_token, the     *)
(* recursive-descent parser list/expr/term/factor/power/base with the      *)
(* array-index postfix, node allocation and release, the constant folder   *)
(* optimize and the evaluator te_eval.                                     *)
(*                                                                         *)
(* Pointers are integers: 0 is NULL, a positive number is the address of a *)
(* te_expr node (its index in the heap), a negative number is a closure    *)
(* context.  A double is a record: an exact rational, an infinity or NaN.  *)
(* The input text is a sequence of one-character strings; reading past its *)
(* end reads the terminating NUL.                                          *)
(***************************************************************************)
EXTENDS Integers, Sequences, FiniteSets, TLC

VARIABLES text, pc, root, error, heap, raw, mem, result, build

vars == <<text, pc, root, error, heap, raw, mem, result, build>>

\* The element of a one-element set: The({e : x \in {v}}) is e with x
\* standing for the value v.
The(S) == CHOOSE x \in S : TRUE

(***************************************************************************)
(* Type codes.  tinyexpr.h declares TE_VARIABLE, TE_FUNCTION0..7,          *)
(* TE_CLOSURE0..7, TE_FLAG_PURE and TE_ARRAY; tinyexpr.c adds TE_CONSTANT  *)
(* and the token kinds, which start right after TE_CLOSURE7.               *)
(***************************************************************************)
TE_VARIABLE == 0

TE_CONSTANT == 1

TE_ARRAY == 2

TE_FUNCTION0 == 8

TE_CLOSURE0 == 16

TE_FLAG_PURE == 32

TE_FUNCTION1 == TE_FUNCTION0 + 1

TE_FUNCTION2 == TE_FUNCTION0 + 2

TE_FUNCTION3 == TE_FUNCTION0 + 3

TE_CLOSURE1 == TE_CLOSURE0 + 1

TE_CLOSURE7 == TE_CLOSURE0 + 7

TOK_NULL == TE_CLOSURE7 + 1

TOK_ERROR == TOK_NULL + 1

TOK_END == TOK_NULL + 2

TOK_SEP == TOK_NULL + 3

TOK_OPEN == TOK_NULL + 4

TOK_CLOSE == TOK_NULL + 5

TOK_NUMBER == TOK_NULL + 6

TOK_VARIABLE == TOK_NULL + 7

TOK_INFIX == TOK_NULL + 8

TOK_OPEN_BRACKET == TOK_NULL + 9

TOK_CLOSE_BRACKET == TOK_NULL + 10

TYPE_MASK(t) == t % 32

IS_PURE(t) == (t \div 32) % 2 = 1

IS_FUNCTION(t) == (t \div 8) % 2 = 1

IS_CLOSURE(t) == (t \div 16) % 2 = 1

ARITY(t) ==
  IF IS_FUNCTION(t) \/ IS_CLOSURE(t) THEN t % 8
  ELSE IF t = TE_ARRAY THEN 1 ELSE 0

(***************************************************************************)
(* Doubles.  k = "num": the rational n/d in lowest terms, d > 0;           *)
(* k = "inf": the infinity of sign n; k = "nan": NaN.                      *)
(***************************************************************************)
Abs(x) == IF x < 0 THEN -x ELSE x

Sgn(x) == IF x < 0 THEN -1 ELSE IF x > 0 THEN 1 ELSE 0

RECURSIVE GCD(_, _)
GCD(a, b) == IF b = 0 THEN a ELSE GCD(b, a % b)

Num(n, d) ==
  LET g == GCD(Abs(n), d)
  IN  [k |-> "num", n |-> n \div g, d |-> d \div g]

Int2D(i) == [k |-> "num", n |-> i, d |-> 1]

NaN == [k |-> "nan", n |-> 0, d |-> 1]

Inf(sign) == [k |-> "inf", n |-> sign, d |-> 1]

IsNaN(x) == x.k = "nan"

IsNum(x) == x.k = "num"

\* a < b on doubles: false as soon as one side is NaN.
Less(a, b) ==
  /\ ~IsNaN(a) /\ ~IsNaN(b)
  /\ IF a.k = "inf" THEN a.n < 0 /\ ~(b.k = "inf" /\ b.n < 0)
     ELSE IF b.k = "inf" THEN b.n > 0
     ELSE a.n * b.d < b.n * a.d

\* (int)x for a finite x in range: truncation toward zero.
Trunc(x) == Sgn(x.n) * (Abs(x.n) \div x.d)

\* round(x): to nearest, halfway cases away from zero.
Round(x) == Sgn(x.n) * ((2 * Abs(x.n) + x.d) \div (2 * x.d))

add(a, b) ==
  IF IsNaN(a) \/ IsNaN(b) THEN NaN
  ELSE IF a.k = "inf" THEN (IF b.k = "inf" /\ b.n # a.n THEN NaN ELSE a)
  ELSE IF b.k = "inf" THEN b
  ELSE Num(a.n * b.d + b.n * a.d, a.d * b.d)

negate(a) == IF IsNaN(a) THEN NaN ELSE [a EXCEPT !.n = -a.n]

sub(a, b) == add(a, negate(b))

mul(a, b) ==
  IF IsNaN(a) \/ IsNaN(b) THEN NaN
  ELSE IF a.k = "inf" \/ b.k = "inf"
       THEN (IF a.n = 0 \/ b.n = 0 THEN NaN ELSE Inf(Sgn(a.n) * Sgn(b.n)))
  ELSE Num(a.n * b.n, a.d * b.d)

divide(a, b) ==
  IF IsNaN(a) \/ IsNaN(b) THEN NaN
  ELSE IF a.k = "inf" THEN (IF b.k = "inf" THEN NaN
                            ELSE Inf(a.n * (IF b.n < 0 THEN -1 ELSE 1)))
  ELSE IF b.k = "inf" THEN Int2D(0)
  ELSE IF b.n = 0 THEN (IF a.n = 0 THEN NaN ELSE Inf(Sgn(a.n)))
  ELSE Num(a.n * b.d * Sgn(b.n), a.d * Abs(b.n))

comma(a, b) == b

RECURSIVE IntPow(_, _)
IntPow(x, k) == IF k = 0 THEN 1 ELSE x * IntPow(x, k - 1)

\* pow(a, b) of the math library, for the arguments this model gives it: a
\* zero exponent, a base of one, a NaN, or a rational or infinite base with
\* an integral exponent.
pow(a, b) ==
  CASE IsNum(b) /\ b.n = 0 -> Int2D(1)
    [] IsNum(a) /\ a.n = 1 /\ a.d = 1 /\ ~(IsNum(b) /\ b.n = 0) -> Int2D(1)
    [] (IsNaN(a) \/ IsNaN(b)) /\ ~(IsNum(b) /\ b.n = 0) /\ ~(IsNum(a) /\ a.n = 1 /\ a.d = 1)
         -> NaN
    [] a.k = "inf" /\ IsNum(b) /\ b.d = 1 /\ b.n > 0
         -> Inf(IF a.n < 0 /\ b.n % 2 = 1 THEN -1 ELSE 1)
    [] a.k = "inf" /\ IsNum(b) /\ b.d = 1 /\ b.n < 0 -> Int2D(0)
    [] IsNum(a) /\ ~(a.n = 1 /\ a.d = 1) /\ IsNum(b) /\ b.d = 1 /\ b.n > 0
         -> Num(IntPow(a.n, b.n), IntPow(a.d, b.n))
    [] IsNum(a) /\ ~(a.n = 1 /\ a.d = 1) /\ IsNum(b) /\ b.d = 1 /\ b.n < 0
         -> IF a.n = 0 THEN Inf(1)
            ELSE Num(IntPow(Sgn(a.n), -b.n) * IntPow(a.d, -b.n), IntPow(Abs(a.n), -b.n))

fabs(a) == IF IsNaN(a) THEN NaN ELSE [a EXCEPT !.n = Abs(a.n)]

\* fmod(a, b) of the math library: a - trunc(a / b) * b.
fmod(a, b) ==
  IF IsNaN(a) \/ IsNaN(b) \/ a.k = "inf" \/ (IsNum(b) /\ b.n = 0) THEN NaN
  ELSE IF b.k = "inf" THEN a
  ELSE sub(a, mul(Int2D(Trunc(divide(a, b))), b))

(***************************************************************************)
(* The bitwise callables.  An int64_t that holds a rounded operand is a    *)
(* natural number here; it is compared with MAX_BITWISE_VALUE, which is    *)
(* 2^MAX_BITWISE_WIDTH - 1, by its number of binary digits.                *)
(***************************************************************************)
MAX_BITWISE_WIDTH == 53

\* round(x) of the math library.
round(x) == IF IsNum(x) THEN Int2D(Round(x)) ELSE x

\* The number of binary digits of the natural number r.
RECURSIVE BitLen(_)
BitLen(r) == IF r = 0 THEN 0 ELSE 1 + BitLen(r \div 2)

\* rounded <= (double)MAX_BITWISE_VALUE, rounded an integral double, an
\* infinity or NaN.
AtMostMaxBitwise(rounded) ==
  /\ ~IsNaN(rounded)
  /\ IF rounded.k = "inf" THEN rounded.n < 0
     ELSE rounded.n < 0 \/ BitLen(rounded.n) <= MAX_BITWISE_WIDTH

\* A test that would look at the sign after rounding.
is_valid_rounded(x) ==
  ~Less(round(x), Int2D(0)) /\ AtMostMaxBitwise(round(x))

is_valid_bitwise_operand(x) ==
  IF Less(x, Int2D(0)) THEN FALSE ELSE AtMostMaxBitwise(round(x))

\* ia op ib on natural numbers, bit by bit; op is "and", "or" or "xor".
BitOf(op, x, y) ==
  CASE op = "and" -> IF x = 1 /\ y = 1 THEN 1 ELSE 0
    [] op = "or"  -> IF x = 1 \/ y = 1 THEN 1 ELSE 0
    [] op = "xor" -> IF x # y THEN 1 ELSE 0

RECURSIVE BitOp(_, _, _)
BitOp(op, ia, ib) ==
  IF ia = 0 /\ ib = 0 THEN 0
  ELSE BitOf(op, ia % 2, ib % 2) + 2 * BitOp(op, ia \div 2, ib \div 2)

bitwise_and(a, b) ==
  IF ~is_valid_bitwise_operand(a) \/ ~is_valid_bitwise_operand(b) THEN NaN
  ELSE Int2D(BitOp("and", Round(a), Round(b)))

bitwise_or(a, b) ==
  IF ~is_valid_bitwise_operand(a) \/ ~is_valid_bitwise_operand(b) THEN NaN
  ELSE Int2D(BitOp("or", Round(a), Round(b)))

fn_xor(a, b) ==
  IF ~is_valid_bitwise_operand(a) \/ ~is_valid_bitwise_operand(b) THEN NaN
  ELSE Int2D(BitOp("xor", Round(a), Round(b)))

\* Bit bi of the natural number iv: iv & (1LL << bi).
RECURSIVE BitAt(_, _)
BitAt(iv, bi) == IF bi = 0 THEN iv % 2 ELSE BitAt(iv \div 2, bi - 1)

\* fn_bit for finite operands (it converts an infinity or a NaN to int64_t,
\* which is undefined; no expression of this model gives it one).
fn_bit(n, i) ==
  IF Less(n, Int2D(0)) \/ Less(i, Int2D(0)) THEN NaN
  ELSE IF BitLen(Round(n)) > MAX_BITWISE_WIDTH \/ Round(i) >= MAX_BITWISE_WIDTH THEN NaN
  ELSE Int2D(BitAt(Round(n), Round(i)))

(***************************************************************************)
(* Characters.  AsciiOrder lists the characters the model uses in          *)
(* increasing byte order; NUL, the terminator, is below all of them.       *)
(* The letters e, x and p never follow a digit in the inputs of this       *)
(* model except as the exponent marker handled by strtod below.            *)
(***************************************************************************)
NUL == ""

AsciiOrder ==
  <<" ", "$", "%", "&", "(", ")", "*", "+", ",", "-", ".", "/",
    "0", "1", "2", "3", "4", "5", "6", "7", "8", "9", "<", "A", "S", "V", "Z",
    "[", "]", "^", "_",
    "a", "b", "c", "d", "e", "f", "g", "h", "i", "j", "k", "l", "m", "n", "o",
    "p", "q", "r", "s", "t", "u", "v", "w", "x", "y", "z", "|">>

Chars == {AsciiOrder[i] : i \in 1..Len(AsciiOrder)}

OrdOf ==
  [c \in Chars \cup {NUL} |->
     IF c = NUL THEN 0 ELSE CHOOSE i \in 1..Len(AsciiOrder) : AsciiOrder[i] = c]

Digits == {"0", "1", "2", "3", "4", "5", "6", "7", "8", "9"}

DigitVal == [c \in Digits |-> OrdOf[c] - OrdOf["0"]]

isdigit(c) == c \in Digits

isalpha(c) ==
  /\ c \in Chars
  /\ \/ OrdOf[c] >= OrdOf["a"] /\ OrdOf[c] <= OrdOf["z"]
     \/ OrdOf[c] >= OrdOf["A"] /\ OrdOf[c] <= OrdOf["Z"]

\* The byte at offset i of the NUL-terminated string t (offsets from 0).
CharAt(t, i) == IF i < Len(t) THEN t[i + 1] ELSE NUL

(***************************************************************************)
(* The built-in table, in the order of the source (default build: log is   *)
(* log10), without its terminating {0, 0, 0, 0} entry.                     *)
(***************************************************************************)
functions ==
  <<
     [name |-> <<"a", "b", "s">>, address |-> "fabs", type |-> TE_FUNCTION0 + 1 + TE_FLAG_PURE, context |-> 0],
     [name |-> <<"a", "c", "o", "s">>, address |-> "acos", type |-> TE_FUNCTION0 + 1 + TE_FLAG_PURE, context |-> 0],
     [name |-> <<"a", "r", "r", "l", "e", "n">>, address |-> "te_arrlen", type |-> TE_FUNCTION0 + 1 + TE_FLAG_PURE, context |-> 0],
     [name |-> <<"a", "r", "r", "m", "a", "x">>, address |-> "te_arrmax", type |-> TE_FUNCTION0 + 1 + TE_FLAG_PURE, context |-> 0],
     [name |-> <<"a", "r", "r", "m", "i", "n">>, address |-> "te_arrmin", type |-> TE_FUNCTION0 + 1 + TE_FLAG_PURE, context |-> 0],
     [name |-> <<"a", "s", "i", "n">>, address |-> "asin", type |-> TE_FUNCTION0 + 1 + TE_FLAG_PURE, context |-> 0],
     [name |-> <<"a", "t", "a", "n">>, address |-> "atan", type |-> TE_FUNCTION0 + 1 + TE_FLAG_PURE, context |-> 0],
     [name |-> <<"a", "t", "a", "n", "2">>, address |-> "atan2", type |-> TE_FUNCTION0 + 2 + TE_FLAG_PURE, context |-> 0],
     [name |-> <<"b", "i", "t">>, address |-> "fn_bit", type |-> TE_FUNCTION0 + 2 + TE_FLAG_PURE, context |-> 0],
     [name |-> <<"c", "e", "i", "l">>, address |-> "ceil", type |-> TE_FUNCTION0 + 1 + TE_FLAG_PURE, context |-> 0],
     [name |-> <<"c", "o", "s">>, address |-> "cos", type |-> TE_FUNCTION0 + 1 + TE_FLAG_PURE, context |-> 0],
     [name |-> <<"c", "o", "s", "h">>, address |-> "cosh", type |-> TE_FUNCTION0 + 1 + TE_FLAG_PURE, context |-> 0],
     [name |-> <<"e">>, address |-> "e", type |-> TE_FUNCTION0 + 0 + TE_FLAG_PURE, context |-> 0],
     [name |-> <<"e", "x", "p">>, address |-> "exp", type |-> TE_FUNCTION0 + 1 + TE_FLAG_PURE, context |-> 0],
     [name |-> <<"f", "a", "c">>, address |-> "fac", type |-> TE_FUNCTION0 + 1 + TE_FLAG_PURE, context |-> 0],
     [name |-> <<"f", "l", "o", "o", "r">>, address |-> "floor", type |-> TE_FUNCTION0 + 1 + TE_FLAG_PURE, context |-> 0],
     [name |-> <<"l", "i", "n", "e", "a", "r", "_", "i", "n", "t", "e", "r", "p", "o", "l", "a", "t", "e">>, address |-> "te_lerp", type |-> TE_FUNCTION0 + 3 + TE_FLAG_PURE, context |-> 0],
     [name |-> <<"l", "n">>, address |-> "log", type |-> TE_FUNCTION0 + 1 + TE_FLAG_PURE, context |-> 0],
     [name |-> <<"l", "o", "g">>, address |-> "log10", type |-> TE_FUNCTION0 + 1 + TE_FLAG_PURE, context |-> 0],
     [name |-> <<"l", "o", "g", "1", "0">>, address |-> "log10", type |-> TE_FUNCTION0 + 1 + TE_FLAG_PURE, context |-> 0],
     [name |-> <<"n", "c", "r">>, address |-> "ncr", type |-> TE_FUNCTION0 + 2 + TE_FLAG_PURE, context |-> 0],
     [name |-> <<"n", "p", "r">>, address |-> "npr", type |-> TE_FUNCTION0 + 2 + TE_FLAG_PURE, context |-> 0],
     [name |-> <<"p", "i">>, address |-> "pi", type |-> TE_FUNCTION0 + 0 + TE_FLAG_PURE, context |-> 0],
     [name |-> <<"p", "o", "w">>, address |-> "pow", type |-> TE_FUNCTION0 + 2 + TE_FLAG_PURE, context |-> 0],
     [name |-> <<"s", "i", "n">>, address |-> "sin", type |-> TE_FUNCTION0 + 1 + TE_FLAG_PURE, context |-> 0],
     [name |-> <<"s", "i", "n", "h">>, address |-> "sinh", type |-> TE_FUNCTION0 + 1 + TE_FLAG_PURE, context |-> 0],
     [name |-> <<"s", "q", "r", "t">>, address |-> "sqrt", type |-> TE_FUNCTION0 + 1 + TE_FLAG_PURE, context |-> 0],
     [name |-> <<"s", "u", "m">>, address |-> "te_sum", type |-> TE_FUNCTION0 + 1 + TE_FLAG_PURE, context |-> 0],
     [name |-> <<"t", "a", "n">>, address |-> "tan", type |-> TE_FUNCTION0 + 1 + TE_FLAG_PURE, context |-> 0],
     [name |-> <<"t", "a", "n", "h">>, address |-> "tanh", type |-> TE_FUNCTION0 + 1 + TE_FLAG_PURE, context |-> 0],
     [name |-> <<"x", "o", "r">>, address |-> "fn_xor", type |-> TE_FUNCTION0 + 2 + TE_FLAG_PURE, context |-> 0]
  >>

\* strncmp(name, fname, len), name being the len bytes of t at offset start
\* followed by the rest of the text: the sign of the first difference.
RECURSIVE strncmp(_, _, _, _, _)
strncmp(t, start, fname, len, k) ==
  IF k >= len THEN 0
  ELSE LET a == OrdOf[CharAt(t, start + k)]
           b == OrdOf[CharAt(fname, k)]
       IN  IF a # b THEN a - b
           ELSE IF a = 0 THEN 0
           ELSE strncmp(t, start, fname, len, k + 1)

\* The comparison find_builtin makes with entry i (from 0) of the table.
BuiltinCmp(t, start, len, i) ==
  IF strncmp(t, start, functions[i + 1].name, len, 0) # 0
  THEN strncmp(t, start, functions[i + 1].name, len, 0)
  ELSE 0 - OrdOf[CharAt(functions[i + 1].name, len)]

\* The entries (from 0) find_builtin compares with, in order; the entry
\* after the last of functions is the terminating one, whose name is NULL.
RECURSIVE Probes(_, _, _, _, _)
Probes(t, start, len, imin, imax) ==
  IF imax < imin THEN <<>>
  ELSE The({ IF i >= Len(functions) \/ BuiltinCmp(t, start, len, i) = 0 THEN <<i>>
             ELSE IF BuiltinCmp(t, start, len, i) > 0
                  THEN <<i>> \o Probes(t, start, len, i + 1, imax)
             ELSE <<i>> \o Probes(t, start, len, imin, i - 1)
             : i \in {imin + ((imax - imin) \div 2)} })

\* A search that would compare the first len bytes only.
RECURSIVE BinSearch_prefix(_, _, _, _, _)
BinSearch_prefix(t, start, len, imin, imax) ==
  IF imax < imin THEN 0
  ELSE The({ IF strncmp(t, start, functions[i + 1].name, len, 0) = 0 THEN i + 1
             ELSE IF strncmp(t, start, functions[i + 1].name, len, 0) > 0
                  THEN BinSearch_prefix(t, start, len, i + 1, imax)
             ELSE BinSearch_prefix(t, start, len, imin, i - 1)
             : i \in {imin + ((imax - imin) \div 2)} })

RECURSIVE BinSearch(_, _, _, _, _)
BinSearch(t, start, len, imin, imax) ==
  IF imax < imin THEN 0
  ELSE LET i  == imin + ((imax - imin) \div 2)
           c0 == strncmp(t, start, functions[i + 1].name, len, 0)
           c  == IF c0 = 0 THEN 0 - OrdOf[CharAt(functions[i + 1].name, len)]
                 ELSE c0
       IN  IF c = 0 THEN i + 1
           ELSE IF c > 0 THEN BinSearch(t, start, len, i + 1, imax)
           ELSE BinSearch(t, start, len, imin, i - 1)

\* find_builtin: the 1-based position in functions of the entry found, or 0.
find_builtin(t, start, len) == BinSearch(t, start, len, 0, Len(functions) - 1)

\* find_lookup: the 1-based position in the caller's table of the first entry
\* whose name is exactly the len bytes at start, or 0.
RECURSIVE LookupFrom(_, _, _, _, _)
LookupFrom(lookup, t, start, len, i) ==
  IF i > Len(lookup) THEN 0
  ELSE IF /\ strncmp(t, start, lookup[i].name, len, 0) = 0
          /\ CharAt(lookup[i].name, len) = NUL
       THEN i
       ELSE LookupFrom(lookup, t, start, len, i + 1)

find_lookup(s, start, len) ==
  IF Len(s.lookup) = 0 THEN 0 ELSE LookupFrom(s.lookup, s.text, start, len, 1)

(***************************************************************************)
(* strtod on a text that starts with a digit or '.': the longest prefix    *)
(* digits [. digits] [e [+-] digits] with at least one mantissa digit.     *)
(* With no mantissa digit nothing is converted: the value is 0 and the     *)
(* end pointer is the start.                                               *)
(***************************************************************************)
RECURSIVE DigitsEnd(_, _)
DigitsEnd(t, p) == IF isdigit(CharAt(t, p)) THEN DigitsEnd(t, p + 1) ELSE p

RECURSIVE DigitsValue(_, _, _, _)
DigitsValue(t, p, q, acc) ==
  IF p >= q THEN acc ELSE DigitsValue(t, p + 1, q, 10 * acc + DigitVal[CharAt(t, p)])

RECURSIVE Pow10(_)
Pow10(k) == IF k = 0 THEN 1 ELSE 10 * Pow10(k - 1)

\* The exponent part at f1, after the mantissa mant; its digits are [e0, e1).
StrtodExp(t, f1, mant, e0, e1) ==
  IF ~(CharAt(t, f1) = "e" /\ e1 > e0) THEN [end |-> f1, value |-> mant]
  ELSE IF CharAt(t, f1 + 1) = "-"
       THEN [end |-> e1, value |-> Num(mant.n, mant.d * Pow10(DigitsValue(t, e0, e1, 0)))]
       ELSE [end |-> e1, value |-> Num(mant.n * Pow10(DigitsValue(t, e0, e1, 0)), mant.d)]

\* The mantissa: integer digits [p, i1) and fraction digits [f0, f1).
StrtodMant(t, p, i1, f0, f1, e0) ==
  IF (i1 - p) + (f1 - f0) = 0 THEN [end |-> p, value |-> Int2D(0)]
  ELSE StrtodExp(t, f1,
                 Num(DigitsValue(t, p, i1, 0) * Pow10(f1 - f0) + DigitsValue(t, f0, f1, 0),
                     Pow10(f1 - f0)),
                 e0, DigitsEnd(t, e0))

StrtodFrac(t, p, i1, f0, f1) ==
  StrtodMant(t, p, i1, f0, f1, IF CharAt(t, f1 + 1) \in {"+", "-"} THEN f1 + 2 ELSE f1 + 1)

StrtodInt(t, p, i1) ==
  IF CharAt(t, i1) = "." THEN StrtodFrac(t, p, i1, i1 + 1, DigitsEnd(t, i1 + 1))
  ELSE StrtodFrac(t, p, i1, i1, i1)

strtod(t, p) == StrtodInt(t, p, DigitsEnd(t, p))

(***************************************************************************)
(* The tokenizer.  s is the parser state: the text (start), the offset of  *)
(* the next byte, the token type and the token's value, bound pointer,     *)
(* callable and closure context, and the caller's symbol table; and, for   *)
(* the properties, the number of tokens read after an error (late).        *)
(***************************************************************************)
RECURSIVE IdentEnd(_, _)
IdentEnd(t, p) ==
  LET c == CharAt(t, p)
  IN  IF isalpha(c) \/ isdigit(c) \/ c = "_" THEN IdentEnd(t, p + 1) ELSE p

InfixOf ==
  [c \in {"+", "-", "*", "/", "^", "%", "&", "|"} |->
     CASE c = "+" -> "add"
       [] c = "-" -> "sub"
       [] c = "*" -> "mul"
       [] c = "/" -> "divide"
       [] c = "^" -> "pow"
       [] c = "%" -> "fmod"
       [] c = "&" -> "bitwise_and"
       [] c = "|" -> "bitwise_or"]

StructOf ==
  [c \in {"(", ")", "[", "]", ","} |->
     CASE c = "(" -> TOK_OPEN
       [] c = ")" -> TOK_CLOSE
       [] c = "[" -> TOK_OPEN_BRACKET
       [] c = "]" -> TOK_CLOSE_BRACKET
       [] c = "," -> TOK_SEP]

\* The entry that stands for no entry (a NULL te_variable pointer).
NoVar == [name |-> <<>>, address |-> "null", type |-> 0, context |-> 0]

\* The token for var, the entry found for the identifier that ends at end.
TokenOf(s, end, var) ==
  IF var = NoVar THEN [s EXCEPT !.next = end, !.type = TOK_ERROR]
  ELSE IF TYPE_MASK(var.type) = TE_VARIABLE
       THEN [s EXCEPT !.next = end, !.type = TOK_VARIABLE, !.bound = var.address]
  ELSE IF TYPE_MASK(var.type) \in TE_CLOSURE0..TE_CLOSURE7
       THEN [s EXCEPT !.next = end, !.context = var.context, !.type = var.type,
                      !.function = var.address]
  ELSE IF TYPE_MASK(var.type) \in TE_FUNCTION0..(TE_FUNCTION0 + 7)
       THEN [s EXCEPT !.next = end, !.type = var.type, !.function = var.address]
  ELSE [s EXCEPT !.next = end]

\* A search that would try the built-ins first.
FindVar_builtin_first(s, start, len, li) ==
  IF find_builtin(s.text, start, len) # 0
  THEN functions[find_builtin(s.text, start, len)]
  ELSE IF li # 0 THEN s.lookup[li]
  ELSE NoVar

\* The entry for the identifier at [start, end): the caller's table first,
\* then the built-ins.
FindVar(s, start, len, li) ==
  IF li # 0 THEN s.lookup[li]
  ELSE IF find_builtin(s.text, start, len) # 0
       THEN functions[find_builtin(s.text, start, len)]
  ELSE NoVar

IdentToken(s, start, end) ==
  TokenOf(s, end, FindVar(s, start, end - start, find_lookup(s, start, end - start)))

RECURSIVE Scan(_)
Scan(s) ==
  LET c == CharAt(s.text, s.next)
  IN  IF c = NUL THEN [s EXCEPT !.type = TOK_END]
      ELSE IF isdigit(c) \/ c = "."
           THEN LET r == strtod(s.text, s.next)
                IN  [s EXCEPT !.value = r.value, !.next = r.end, !.type = TOK_NUMBER]
      ELSE IF isalpha(c)
           THEN LET s2 == IdentToken(s, s.next, IdentEnd(s.text, s.next))
                IN  IF s2.type = TOK_NULL THEN Scan(s2) ELSE s2
      ELSE LET s1 == [s EXCEPT !.next = s.next + 1]
           IN  IF c \in DOMAIN InfixOf
                  THEN [s1 EXCEPT !.type = TOK_INFIX, !.function = InfixOf[c]]
               ELSE IF c \in DOMAIN StructOf THEN [s1 EXCEPT !.type = StructOf[c]]
               ELSE IF c \in {" ", "\t", "\n", "\r"} THEN Scan(s1)
               ELSE [s1 EXCEPT !.type = TOK_ERROR]

\* late counts the calls made while the state was in error.
next_token(s) ==
  Scan([s EXCEPT !.type = TOK_NULL, !.late = IF s.type = TOK_ERROR THEN @ + 1 ELSE @])

(***************************************************************************)
(* The heap of te_expr nodes.  nodes[p] is the node at address p (never    *)
(* reused, so that a stale pointer stays recognisable), live the addresses *)
(* malloc has returned and free has not yet taken back, nalloc the number  *)
(* of calls of malloc, failAt the call of malloc that returns NULL (0:     *)
(* none), dfree and uaf the number of frees of, and of reads through, a    *)
(* pointer that is not live.  A node's value, bound and function share one *)
(* union in the source and are kept apart here: each is read only where it *)
(* was the member written.                                                 *)
(***************************************************************************)
EmptyHeap(failAt) ==
  [nodes |-> <<>>, live |-> {}, nalloc |-> 0, failAt |-> failAt, dfree |-> 0, uaf |-> 0]

R(ret, s, h) == [ret |-> ret, s |-> s, h |-> h]

new_expr(h, type, parameters) ==
  LET arity == ARITY(type)
      slots == arity + (IF IS_CLOSURE(type) THEN 1 ELSE 0)
      node  == [type |-> type, value |-> Int2D(0), bound |-> "null", function |-> "null",
                parameters |-> [i \in 1..slots |->
                                  IF i <= arity /\ i <= Len(parameters)
                                  THEN parameters[i] ELSE 0]]
      h1    == [h EXCEPT !.nalloc = @ + 1]
  IN  IF h1.nalloc = h.failAt THEN [ret |-> 0, h |-> h1]
      ELSE [ret |-> Len(h.nodes) + 1,
            h   |-> [h1 EXCEPT !.nodes = Append(@, node),
                               !.live = @ \cup {Len(h.nodes) + 1}]]

\* free(p) of the C library, p not NULL.
free(h, p) ==
  IF p \in h.live THEN [h EXCEPT !.live = @ \ {p}] ELSE [h EXCEPT !.dfree = @ + 1]

\* A read of a field of node p.
Touch(h, p) == IF p \in h.live THEN h ELSE [h EXCEPT !.uaf = @ + 1]

RECURSIVE te_free(_, _), FreeFrom(_, _, _)
FreeFrom(h, n, k) ==
  IF k < 0 THEN h ELSE FreeFrom(te_free(h, h.nodes[n].parameters[k + 1]), n, k - 1)

\* The switch falls through from the node's arity down to parameter 0; only
\* TE_FUNCTION1..7 and TE_CLOSURE1..7 have a case.
te_free_parameters(h, n) ==
  IF n = 0 THEN h
  ELSE LET m == TYPE_MASK(h.nodes[n].type)
       IN  IF m \in (TE_FUNCTION1..(TE_FUNCTION0 + 7)) \cup (TE_CLOSURE1..TE_CLOSURE7)
           THEN FreeFrom(Touch(h, n), n, (m % 8) - 1)
           ELSE Touch(h, n)

te_free(h, n) == IF n = 0 THEN h ELSE free(te_free_parameters(h, n), n)

SetNode(h, p, node) == [h EXCEPT !.nodes[p] = node]

\* The nodes te_eval(n) reads: n and, through parameters[0..arity-1], the
\* nodes its recursive calls read.
RECURSIVE Evaluated(_, _)
Evaluated(h, n) ==
  IF n = 0 THEN {}
  ELSE {n} \cup UNION {Evaluated(h, h.nodes[n].parameters[i]) : i \in 1..ARITY(h.nodes[n].type)}

\* The heap after te_eval(n): each read of a node that is not live counted.
Reading(h, n) ==
  [h EXCEPT !.uaf = @ + Cardinality(Evaluated(h, n) \ h.live)]

(***************************************************************************)
(* The parser.  Every function takes the parser state and the heap and     *)
(* returns R(ret, s, h): the node (0 for NULL), the state and the heap     *)
(* after it.  A call of one parser function from another is written        *)
(* Parse(name, s, h); Parse, defined after them, is the call.              *)
(***************************************************************************)
RECURSIVE Parse(_, _, _)
RECURSIVE parse_postfix(_, _, _), ArgLoop(_, _, _, _, _), BinaryLoop(_, _, _, _)

Err(s) == [s EXCEPT !.type = TOK_ERROR]

\* A parse_postfix that would index any node.
Indexable_any(node) == TRUE

\* Only a variable node may be indexed.
Indexable(node) == TYPE_MASK(node.type) = TE_VARIABLE

parse_postfix(s, h, left) ==
  IF s.type # TOK_OPEN_BRACKET THEN R(left, s, h)
  ELSE IF ~Indexable(h.nodes[left])
       THEN R(0, Err(s), te_free(h, left))
  ELSE The({
    IF idx.ret = 0 \/ idx.s.type # TOK_CLOSE_BRACKET
    THEN R(0, Err(idx.s), te_free(te_free(idx.h, idx.ret), left))
    ELSE The({
      IF node.ret = 0 THEN R(0, next_token(idx.s), te_free(node.h, idx.ret))
      ELSE parse_postfix(next_token(idx.s),
                         te_free(SetNode(node.h, node.ret,
                                         [node.h.nodes[node.ret] EXCEPT
                                            !.bound = node.h.nodes[left].bound]),
                                 left),
                         node.ret)
      : node \in {new_expr(idx.h, TE_ARRAY, <<idx.ret>>)} })
    : idx \in {Parse("list", next_token(s), h)} })

\* The for loop of base over the arguments of a function of arity >= 2:
\* i is the loop index on entry; null tells that an argument came back NULL
\* (ret already freed).
ArgLoop(s, h, ret, i, arity) ==
  IF i >= arity THEN [null |-> FALSE, i |-> i, s |-> s, h |-> h]
  ELSE The({
    IF r.ret = 0
    THEN [null |-> TRUE, i |-> i, s |-> r.s,
          h |-> te_free(SetNode(r.h, ret, [r.h.nodes[ret] EXCEPT !.parameters[i + 1] = 0]),
                        ret)]
    ELSE IF r.s.type # TOK_SEP
    THEN [null |-> FALSE, i |-> i, s |-> r.s,
          h |-> SetNode(r.h, ret, [r.h.nodes[ret] EXCEPT !.parameters[i + 1] = r.ret])]
    ELSE ArgLoop(r.s, SetNode(r.h, ret, [r.h.nodes[ret] EXCEPT !.parameters[i + 1] = r.ret]),
                 ret, i + 1, arity)
    : r \in {Parse("expr", next_token(s), h)} })

\* No test after the loop.
Mismatch_never(l, arity) == FALSE

\* A test after the loop that would not count the arguments.
Mismatch_uncounted(l, arity) == l.s.type # TOK_CLOSE

\* The test after the loop: the argument list l does not end at ")" after
\* exactly arity expressions.
Mismatch(l, arity) == l.s.type # TOK_CLOSE \/ l.i # arity - 1

\* ret->function = s->function and, for a closure, the context in the
\* parameter after the last argument.
WithCallable(node, s) ==
  IF IS_CLOSURE(s.type)
  THEN [node EXCEPT !.function = s.function, !.parameters[ARITY(s.type) + 1] = s.context]
  ELSE [node EXCEPT !.function = s.function]

\* The state after a token that must be of type close: past it, or in error.
Expect(s, close) == IF s.type # close THEN Err(s) ELSE next_token(s)

\* The state after the optional "(" ")" of a function of arity 0; s1 is
\* the state after the function's name.
EmptyCall(s1) == IF s1.type # TOK_OPEN THEN s1 ELSE Expect(next_token(s1), TOK_CLOSE)

base(s, h) ==
  IF TYPE_MASK(s.type) = TOK_NUMBER THEN
    The({ IF a.ret = 0 THEN R(0, s, a.h)
          ELSE R(a.ret, next_token(s),
                 SetNode(a.h, a.ret, [a.h.nodes[a.ret] EXCEPT !.value = s.value]))
          : a \in {new_expr(h, TE_CONSTANT, <<>>)} })
  ELSE IF TYPE_MASK(s.type) = TOK_VARIABLE THEN
    The({ IF a.ret = 0 THEN R(0, s, a.h)
          ELSE parse_postfix(next_token(s),
                             SetNode(a.h, a.ret, [a.h.nodes[a.ret] EXCEPT !.bound = s.bound]),
                             a.ret)
          : a \in {new_expr(h, TE_VARIABLE, <<>>)} })
  ELSE IF TYPE_MASK(s.type) \in {TE_FUNCTION0, TE_CLOSURE0} THEN
    The({ IF a.ret = 0 THEN R(0, s, a.h)
          ELSE R(a.ret, EmptyCall(next_token(s)),
                 SetNode(a.h, a.ret, WithCallable(a.h.nodes[a.ret], s)))
          : a \in {new_expr(h, s.type, <<>>)} })
  ELSE IF TYPE_MASK(s.type) \in {TE_FUNCTION1, TE_CLOSURE1} THEN
    The({ IF a.ret = 0 THEN R(0, s, a.h)
          ELSE The({
            IF r.ret = 0
            THEN R(0, r.s, te_free(SetNode(r.h, a.ret, [r.h.nodes[a.ret] EXCEPT
                                                          !.parameters[1] = 0]),
                                   a.ret))
            ELSE R(a.ret, r.s, SetNode(r.h, a.ret, [r.h.nodes[a.ret] EXCEPT
                                                      !.parameters[1] = r.ret]))
            : r \in {Parse("power", next_token(s),
                           SetNode(a.h, a.ret, WithCallable(a.h.nodes[a.ret], s)))} })
          : a \in {new_expr(h, s.type, <<>>)} })
  ELSE IF TYPE_MASK(s.type) \in (TE_FUNCTION2..(TE_FUNCTION0 + 7))
                                  \cup ((TE_CLOSURE0 + 2)..TE_CLOSURE7) THEN
    The({ IF a.ret = 0 THEN R(0, s, a.h)
          ELSE The({
            IF s1.type # TOK_OPEN
            THEN R(a.ret, Err(s1), SetNode(a.h, a.ret, WithCallable(a.h.nodes[a.ret], s)))
            ELSE The({
              IF l.null THEN R(0, l.s, l.h)
              ELSE IF Mismatch(l, ARITY(s.type)) THEN R(a.ret, Err(l.s), l.h)
              ELSE R(a.ret, next_token(l.s), l.h)
              : l \in {ArgLoop(s1, SetNode(a.h, a.ret, WithCallable(a.h.nodes[a.ret], s)),
                               a.ret, 0, ARITY(s.type))} })
            : s1 \in {next_token(s)} })
          : a \in {new_expr(h, s.type, <<>>)} })
  ELSE IF TYPE_MASK(s.type) = TOK_OPEN THEN
    The({ IF r.ret = 0 THEN r ELSE R(r.ret, Expect(r.s, TOK_CLOSE), r.h)
          : r \in {Parse("list", next_token(s), h)} })
  ELSE
    The({ IF a.ret = 0 THEN R(0, s, a.h)
          ELSE R(a.ret, Err(s), SetNode(a.h, a.ret, [a.h.nodes[a.ret] EXCEPT !.value = NaN]))
          : a \in {new_expr(h, 0, <<>>)} })

\* The sign loop of power: the state after the leading '+' and '-' tokens
\* and the sign they leave.
RECURSIVE SignLoop(_, _)
SignLoop(s, sign) ==
  IF s.type = TOK_INFIX /\ s.function \in {"add", "sub"}
  THEN SignLoop(next_token(s), IF s.function = "sub" THEN -sign ELSE sign)
  ELSE [s |-> s, sign |-> sign]

power(s, h) ==
  The({
    IF sl.sign = 1 THEN Parse("base", sl.s, h)
    ELSE The({
      IF b.ret = 0 THEN b
      ELSE The({
        IF ret.ret = 0 THEN R(0, b.s, te_free(ret.h, b.ret))
        ELSE R(ret.ret, b.s,
               SetNode(ret.h, ret.ret, [ret.h.nodes[ret.ret] EXCEPT !.function = "negate"]))
        : ret \in {new_expr(b.h, TE_FUNCTION1 + TE_FLAG_PURE, <<b.ret>>)} })
      : b \in {Parse("base", sl.s, h)} })
    : sl \in {SignLoop(s, 1)} })

\* Loops that would take "^" at the level of "*".
Continues_flat(level, s) ==
  CASE level = "factor" -> FALSE
    [] level = "term"   -> s.type = TOK_INFIX /\ s.function \in
                             {"mul", "divide", "fmod", "bitwise_or", "bitwise_and", "pow"}
    [] level = "expr"   -> s.type = TOK_INFIX /\ s.function \in {"add", "sub"}
    [] level = "list"   -> s.type = TOK_SEP

\* The while loops of factor, term, expr and list, which differ in the
\* tokens that continue them and in the operand parsed.
Continues(level, s) ==
  CASE level = "factor" -> s.type = TOK_INFIX /\ s.function = "pow"
    [] level = "term"   -> s.type = TOK_INFIX /\ s.function \in
                             {"mul", "divide", "fmod", "bitwise_or", "bitwise_and"}
    [] level = "expr"   -> s.type = TOK_INFIX /\ s.function \in {"add", "sub"}
    [] level = "list"   -> s.type = TOK_SEP

Operand(level, s, h) ==
  CASE level = "factor" -> Parse("power", s, h)
    [] level = "term"   -> Parse("factor", s, h)
    [] level = "expr"   -> Parse("term", s, h)
    [] level = "list"   -> Parse("expr", s, h)

BinaryLoop(level, s, h, ret) ==
  IF ~Continues(level, s) THEN R(ret, s, h)
  ELSE The({
    IF r.ret = 0 THEN R(0, r.s, te_free(r.h, ret))
    ELSE The({
      IF a.ret = 0 THEN R(0, r.s, te_free(te_free(a.h, r.ret), ret))
      ELSE BinaryLoop(level, r.s,
                      SetNode(a.h, a.ret,
                              [a.h.nodes[a.ret] EXCEPT
                                 !.function = IF level = "list" THEN "comma"
                                              ELSE s.function]),
                      a.ret)
      : a \in {new_expr(r.h, TE_FUNCTION2 + TE_FLAG_PURE, <<ret, r.ret>>)} })
    : r \in {Operand(level, next_token(s), h)} })

\* A first operand r, then the loop of the level.
Level(level, r) == IF r.ret = 0 THEN r ELSE BinaryLoop(level, r.s, r.h, r.ret)

factor(s, h) == Level("factor", Parse("power", s, h))

term(s, h) == Level("term", Parse("factor", s, h))

expr(s, h) == Level("expr", Parse("term", s, h))

list(s, h) == Level("list", Parse("expr", s, h))

Parse(name, s, h) ==
  CASE name = "list"   -> list(s, h)
    [] name = "expr"   -> expr(s, h)
    [] name = "term"   -> term(s, h)
    [] name = "factor" -> factor(s, h)
    [] name = "power"  -> power(s, h)
    [] name = "base"   -> base(s, h)

(***************************************************************************)
(* The callables.  Those the host math library provides are exact on the   *)
(* rationals of this model; pi and e are the nearest values it holds.      *)
(***************************************************************************)
INT_MIN == -2147483647 - 1

\* (int)x.  The conversion of a NaN or an infinity is undefined: it yields
\* what the build in use yields (b.badcast).
CastInt(x, b) == IF IsNum(x) THEN Trunc(x) ELSE b.badcast

\* arr[i] of the storage a bound pointer points to (offsets from 0).
Load(arr, i) == arr[i + 1]

RECURSIVE SumFrom(_, _, _, _)
SumFrom(arr, i, len, s) ==
  IF i > len THEN s ELSE SumFrom(arr, i + 1, len, add(s, Load(arr, i)))

\* A sum that would start at the length element.
te_sum_from0(arr, b) == SumFrom(arr, 0, CastInt(Load(arr, 0), b), Int2D(0))

te_sum(arr, b) == SumFrom(arr, 1, CastInt(Load(arr, 0), b), Int2D(0))

RECURSIVE MinFrom(_, _, _, _)
MinFrom(arr, i, len, m) ==
  IF i > len THEN m
  ELSE MinFrom(arr, i + 1, len, IF Less(Load(arr, i), m) THEN Load(arr, i) ELSE m)

\* A minimum that would not test the length.
te_arrmin_unchecked(arr, b) == MinFrom(arr, 2, CastInt(Load(arr, 0), b), Load(arr, 1))

te_arrmin(arr, b) ==
  LET len == CastInt(Load(arr, 0), b)
  IN  IF len < 1 THEN NaN ELSE MinFrom(arr, 2, len, Load(arr, 1))

RECURSIVE MaxFrom(_, _, _, _)
MaxFrom(arr, i, len, m) ==
  IF i > len THEN m
  ELSE MaxFrom(arr, i + 1, len, IF Less(m, Load(arr, i)) THEN Load(arr, i) ELSE m)

te_arrmax(arr, b) ==
  LET len == CastInt(Load(arr, 0), b)
  IN  IF len < 1 THEN NaN ELSE MaxFrom(arr, 2, len, Load(arr, 1))

te_arrlen(arr) == Load(arr, 0)

LessEq(a, b) == Less(a, b) \/ (~IsNaN(a) /\ a = b)

RECURSIVE LerpFrom(_, _, _, _, _, _)
LerpFrom(domain, range, x, n, ascending, i) ==
  IF i >= n - 1 THEN NaN
  ELSE LET d0 == Load(domain, i + 1)
           d1 == Load(domain, i + 2)
           r0 == Load(range, i + 1)
           r1 == Load(range, i + 2)
           in_range == IF ascending THEN LessEq(d0, x) /\ LessEq(x, d1)
                       ELSE LessEq(x, d0) /\ LessEq(d1, x)
       IN  IF in_range
           THEN (IF d1 = d0 THEN divide(add(r0, r1), Int2D(2))
                 ELSE add(r0, mul(divide(sub(x, d0), sub(d1, d0)), sub(r1, r0))))
           ELSE LerpFrom(domain, range, x, n, ascending, i + 1)

\* A te_lerp that would take every domain for ascending.
te_lerp_ascending(domain, range, x, b) ==
  IF CastInt(Load(range, 0), b) # CastInt(Load(domain, 0), b) \/ CastInt(Load(domain, 0), b) < 2
  THEN NaN
  ELSE LerpFrom(domain, range, x, CastInt(Load(domain, 0), b), TRUE, 0)

te_lerp(domain, range, x, b) ==
  LET n == CastInt(Load(domain, 0), b)
  IN  IF CastInt(Load(range, 0), b) # n \/ n < 2 THEN NaN
      ELSE LerpFrom(domain, range, x, n, Less(Load(domain, 1), Load(domain, n)), 0)

\* The callables of the caller's symbol table: f(a, b), the closure
\* g(context, a), h(a, b, c) and the closure k(context, a, b).
user_f(a, b) == sub(a, b)

user_g(context, a) == add(a, Int2D(-context))

user_h(a, b, c) == add(add(a, b), c)

user_k(context, a, b) == mul(add(a, b), Int2D(-context))

\* A call of the callable at address f with the evaluated arguments.
Call(f, args) ==
  CASE f = "add"    -> add(args[1], args[2])
    [] f = "sub"    -> sub(args[1], args[2])
    [] f = "mul"    -> mul(args[1], args[2])
    [] f = "divide" -> divide(args[1], args[2])
    [] f = "comma"  -> comma(args[1], args[2])
    [] f = "pow"    -> pow(args[1], args[2])
    [] f = "negate" -> negate(args[1])
    [] f = "fmod"   -> fmod(args[1], args[2])
    [] f = "bitwise_and" -> bitwise_and(args[1], args[2])
    [] f = "bitwise_or"  -> bitwise_or(args[1], args[2])
    [] f = "fn_xor" -> fn_xor(args[1], args[2])
    [] f = "fn_bit" -> fn_bit(args[1], args[2])
    [] f = "fabs"   -> fabs(args[1])
    [] f = "pi"     -> Num(355, 113)
    [] f = "e"      -> Num(2721, 1001)
    [] f = "user_f" -> user_f(args[1], args[2])
    [] f = "user_h" -> user_h(args[1], args[2], args[3])

CallClosure(f, context, args) ==
  CASE f = "user_g" -> user_g(context, args[1])
    [] f = "user_k" -> user_k(context, args[1], args[2])

(***************************************************************************)
(* te_eval.  mm is the caller's storage: mm[p] is the sequence of doubles  *)
(* the bound pointer p points to.                                          *)
(***************************************************************************)
Aggregates == {"te_sum", "te_arrlen", "te_arrmin", "te_arrmax"}

RECURSIVE te_eval(_, _, _, _)
te_eval(h, n, mm, b) ==
  IF n = 0 THEN NaN
  ELSE
  LET nd == h.nodes[n]
      tm == TYPE_MASK(nd.type)
      M(e) == te_eval(h, nd.parameters[e + 1], mm, b)
  IN
  IF tm = TE_CONSTANT THEN nd.value
  ELSE IF tm = TE_VARIABLE THEN Load(mm[nd.bound], 0)
  ELSE IF tm = TE_ARRAY THEN
    LET arrv == mm[nd.bound]
        len  == CastInt(Load(arrv, 0), b)
        idx  == CastInt(M(0), b)
    IN  IF idx < 0 \/ idx >= len THEN NaN ELSE Load(arrv, idx + 1)
  ELSE IF tm = TE_FUNCTION3 /\ nd.function = "te_lerp" THEN
    LET d == h.nodes[nd.parameters[1]]
        r == h.nodes[nd.parameters[2]]
        x == M(2)
    IN  IF d.type = TE_VARIABLE /\ r.type = TE_VARIABLE
        THEN te_lerp(mm[d.bound], mm[r.bound], x, b)
        ELSE NaN
  ELSE IF tm = TE_FUNCTION1 /\ nd.function \in Aggregates THEN
    LET arg == h.nodes[nd.parameters[1]]
    IN  IF arg.type = TE_VARIABLE
        THEN (CASE nd.function = "te_sum"    -> te_sum(mm[arg.bound], b)
                [] nd.function = "te_arrmin" -> te_arrmin(mm[arg.bound], b)
                [] nd.function = "te_arrlen" -> te_arrlen(mm[arg.bound])
                [] OTHER                     -> te_arrmax(mm[arg.bound], b))
        ELSE NaN
  ELSE IF tm \in TE_FUNCTION0..(TE_FUNCTION0 + 7)
       THEN Call(nd.function, [e \in 1..ARITY(nd.type) |-> M(e - 1)])
  ELSE IF tm \in TE_CLOSURE0..TE_CLOSURE7
       THEN CallClosure(nd.function, nd.parameters[ARITY(nd.type) + 1],
                        [e \in 1..ARITY(nd.type) |-> M(e - 1)])
  ELSE NaN

(***************************************************************************)
(* optimize and te_compile.                                                *)
(***************************************************************************)
RECURSIVE optimize(_, _, _, _), OptimizeLoop(_, _, _, _, _, _)
\* A loop that would test the children without optimizing them.
OptimizeLoop_shallow(h, n, i, known, mm, b) ==
  IF i >= ARITY(h.nodes[n].type) THEN [h |-> h, known |-> known]
  ELSE OptimizeLoop(h, n, i + 1,
                    known /\ h.nodes[h.nodes[n].parameters[i + 1]].type = TE_CONSTANT, mm, b)

\* A loop that would optimize the children without testing them.
OptimizeLoop_untested(h, n, i, known, mm, b) ==
  IF i >= ARITY(h.nodes[n].type) THEN [h |-> h, known |-> known]
  ELSE OptimizeLoop(optimize(h, h.nodes[n].parameters[i + 1], mm, b), n, i + 1, known, mm, b)

OptimizeLoop(h, n, i, known, mm, b) ==
  IF i >= ARITY(h.nodes[n].type) THEN [h |-> h, known |-> known]
  ELSE LET p  == h.nodes[n].parameters[i + 1]
           h1 == optimize(h, p, mm, b)
       IN  OptimizeLoop(h1, n, i + 1, known /\ h1.nodes[p].type = TE_CONSTANT, mm, b)

\* An optimize that would replace a variable by its value.
optimize_variables(h, n, mm, b) ==
  IF h.nodes[n].type = TE_VARIABLE
  THEN SetNode(h, n, [h.nodes[n] EXCEPT !.type = TE_CONSTANT, !.value = te_eval(h, n, mm, b)])
  ELSE h

\* An optimize that would leave the type of a folded node as it was.
optimize_typed(h, n, mm, b) ==
  IF h.nodes[n].type \in {TE_CONSTANT, TE_VARIABLE} \/ ~IS_PURE(h.nodes[n].type) THEN h
  ELSE The({ IF l.known
             THEN SetNode(te_free_parameters(Reading(l.h, n), n), n,
                          [l.h.nodes[n] EXCEPT !.value = te_eval(l.h, n, mm, b)])
             ELSE l.h
             : l \in {OptimizeLoop(h, n, 0, TRUE, mm, b)} })

optimize(h, n, mm, b) ==
  LET t == h.nodes[n].type
      l == OptimizeLoop(h, n, 0, TRUE, mm, b)
      value == te_eval(l.h, n, mm, b)
      h2 == te_free_parameters(Reading(l.h, n), n)
  IN  IF t = TE_CONSTANT \/ t = TE_VARIABLE THEN h
      ELSE IF ~IS_PURE(t) THEN h
      ELSE IF l.known
           THEN SetNode(h2, n, [h2.nodes[n] EXCEPT !.type = TE_CONSTANT, !.value = value])
           ELSE l.h

\* The parser state te_compile sets up: start and next at the first byte.
NewState(expression, variables) ==
  [text |-> expression, next |-> 0, type |-> TOK_NULL, value |-> Int2D(0),
   bound |-> "null", function |-> "null", context |-> 0, lookup |-> variables,
   late |-> 0]

\* An offset that would not be clamped to 1.
ErrorOffset_unclamped(s) == s.next

\* The offset te_compile reports when the parse stopped before the end.
ErrorOffset(s) == IF s.next = 0 THEN 1 ELSE s.next

\* te_compile with a non-null error pointer.  tree is the heap as list left
\* it, before te_compile freed or optimized anything.
te_compile(expression, variables, failAt, mm, b) ==
  The({
    IF r.ret = 0
    THEN [root |-> 0, error |-> -1, heap |-> r.h, tree |-> r.h, parsed |-> 0, s |-> r.s]
    ELSE IF r.s.type # TOK_END
    THEN [root |-> 0, error |-> ErrorOffset(r.s),
          heap |-> te_free(r.h, r.ret), tree |-> r.h, parsed |-> r.ret, s |-> r.s]
    ELSE [root |-> r.ret, error |-> 0, heap |-> optimize(r.h, r.ret, mm, b),
          tree |-> r.h, parsed |-> r.ret, s |-> r.s]
    : r \in {Parse("list", next_token(NewState(expression, variables)),
                   EmptyHeap(failAt))} })

(***************************************************************************)
(* The caller.  Its symbol table holds the array variables v and w, the    *)
(* impure function f of arity 2, the pure closure g of arity 1 (context    *)
(* -1), the pure function h of arity 3 and the impure closure k of arity   *)
(* 2 (context -2), then a second entry named v and a variable named as the *)
(* built-in ln, both bound to the storage of w.  Every bound variable      *)
(* points to storage laid out as an array: element 0 the length, then the  *)
(* data.                                                                   *)
(***************************************************************************)
variables ==
  <<[name |-> <<"v">>, address |-> "v", type |-> TE_VARIABLE, context |-> 0],
    [name |-> <<"w">>, address |-> "w", type |-> TE_VARIABLE, context |-> 0],
    [name |-> <<"f">>, address |-> "user_f", type |-> TE_FUNCTION2, context |-> 0],
    [name |-> <<"g">>, address |-> "user_g", type |-> TE_CLOSURE1 + TE_FLAG_PURE,
     context |-> -1],
    [name |-> <<"h">>, address |-> "user_h", type |-> TE_FUNCTION3 + TE_FLAG_PURE,
     context |-> 0],
    [name |-> <<"k">>, address |-> "user_k", type |-> TE_CLOSURE0 + 2, context |-> -2],
    [name |-> <<"v">>, address |-> "w", type |-> TE_VARIABLE, context |-> 0],
    [name |-> <<"l", "n">>, address |-> "w", type |-> TE_VARIABLE, context |-> 0]>>

\* Bounds: the number of lexemes of the exhaustively enumerated inputs and
\* the capacity (in data elements) of the array v.
MaxLexemes == 3

MaxLen == 3

Lexemes ==
  {<<"1">>,
   <<"v">>,
   <<"[">>,
   <<"]">>,
   <<"(">>,
   <<")">>,
   <<",">>,
   <<"-">>,
   <<"s", "u", "m">>,
   <<"f">>,
   <<"$">>}

RECURSIVE Texts(_)
Texts(k) ==
  IF k = 0 THEN {<<>>}
  ELSE LET shorter == Texts(k - 1)
       IN  shorter \cup {t \o l : t \in shorter, l \in Lexemes}

ParseInputs ==
  {<<"v", "[", "1", "]", "[", "1", "]">>,
   <<"v", "[", "1", "]", "[", "1", "]", "[", "1", "]">>,
   <<"w", "[", "v", "[", "1", "]", "]">>,
   <<"v", "[", "1", ",", "1", "]">>,
   <<"(", "v", "[", "1", "]">>,
   <<"(", "v", ")", "[", "1", "]">>,
   <<"(", "v", "[", "1", "]", ")", "[", "1", "]">>,
   <<"1", "[", "v", "[", "1", "]", "]">>,
   <<"p", "i", "[", "1", "]">>,
   <<"s", "u", "m", "(", "v", ")", "[", "1", "]">>,
   <<"a", "b", "s", "(", "1", ",", "1", ")">>,
   <<"a", "b", "s", "(", "1", ")">>,
   <<"a", "b", "s", "(", ")">>,
   <<"a", "b", "s", " ", "1">>,
   <<"g", "(", "1", ",", "1", ")">>,
   <<"g", "(", "1", ")">>,
   <<"g", "(", ")">>,
   <<"f", "(", "1", ",", "1", ")">>,
   <<"f", "(", "1", ",", "1", ",", "1", ")">>,
   <<"f", "(", "1", ")">>,
   <<"f", "(", ")">>,
   <<"f", " ", "1">>,
   <<"h", "(", "1", ",", "1", ",", "1", ")">>,
   <<"h", "(", "1", ",", "1", ")">>,
   <<"h", "(", "1", ",", "1", ",", "1", ",", "1", ")">>,
   <<"k", "(", "1", ",", "1", ")">>,
   <<"k", "(", "1", ")">>,
   <<"k", "(", "1", ",", "1", ",", "1", ")">>,
   <<"p", "o", "w", "(", "1", ",", "1", ")">>,
   <<"p", "o", "w", "(", "1", ")">>,
   <<"f", "(", "(", "1", ",", "1", ")", ",", "1", ")">>,
   <<"f", "(", "1", ",", "(", "1", ",", "1", ")", ")">>,
   <<"p", "i">>,
   <<"p", "i", "(", ")">>,
   <<"p", "i", "(", "1", ")">>,
   <<"e">>,
   <<"1", "+", "1", "*", "1">>,
   <<"1", "-", "1", "-", "1">>,
   <<"-", "(", "1", ",", "1", ")">>,
   <<"-", "-", "1">>,
   <<"1", "/", "(", "1", "-", "1", ")">>,
   <<"a", "b", "s", "(", "-", "1", ".", "5", ")">>,
   <<"g", "(", "g", "(", "1", ")", ")">>,
   <<"h", "(", "1", ",", "p", "i", ",", "-", "1", ")">>,
   <<" ", "1", " ", "+", " ", "1", " ">>,
   <<"1", " ", "$">>,
   <<"1", ".", ".">>,
   <<"1", ".", "5">>,
   <<"s", "u", "m", "(", "1", ")">>,
   <<"a", "r", "r", "m", "a", "x", "(", "1", "+", "1", ")">>,
   <<"l", "i", "n", "e", "a", "r", "_", "i", "n", "t", "e", "r", "p", "o", "l", "a", "t", "e", "(", "1", ",", "1", ",", "1", ")">>,
   <<"f", "(", "v", ",", "1", ")">>,
   <<"1", "+", "f", "(", "1", ",", "1", ")">>,
   <<"k", "(", "1", ",", "1", ")", "+", "1">>,
   <<"g", "(", "v", ")">>,
   <<"v", "+", "1">>,
   <<"s", "u", "m", "(", "v", ")">>,
   <<"v", "v">>,
   <<"s", "u">>}

EvalInputs ==
  {<<"v">>,
   <<"v", "[", "0", "]">>,
   <<"v", "[", "1", "]">>,
   <<"v", "[", "2", "]">>,
   <<"v", "[", "3", "]">>,
   <<"v", "[", "-", "1", "]">>,
   <<"v", "[", ".", "5", "]">>,
   <<"v", "[", "-", ".", "5", "]">>,
   <<"v", "[", "1", ".", "9", "]">>,
   <<"v", "[", "v", "]">>,
   <<"v", "[", "v", "[", "0", "]", "]">>,
   <<"v", "[", "v", "[", "9", "]", "]">>,
   <<"v", "[", "1", "+", "1", "]">>,
   <<"v", "[", "v", "-", "1", "]">>,
   <<"w", "[", "v", "[", "0", "]", "]">>,
   <<"s", "u", "m", "(", "v", ")">>,
   <<"s", "u", "m", " ", "v">>,
   <<"a", "r", "r", "l", "e", "n", "(", "v", ")">>,
   <<"a", "r", "r", "m", "i", "n", "(", "v", ")">>,
   <<"a", "r", "r", "m", "a", "x", "(", "v", ")">>,
   <<"s", "u", "m", "(", "(", "v", ")", ")">>,
   <<"s", "u", "m", "(", "v", "[", "0", "]", ")">>,
   <<"s", "u", "m", "(", "-", "v", ")">>,
   <<"s", "u", "m", "(", "1", ")">>,
   <<"s", "u", "m", "(", "v", "+", "0", ")">>,
   <<"a", "r", "r", "m", "a", "x", "(", "v", "[", "0", "]", ")">>,
   <<"a", "r", "r", "l", "e", "n", "(", "-", "v", ")">>,
   <<"a", "r", "r", "m", "i", "n", "(", "1", ")">>,
   <<"a", "r", "r", "m", "a", "x", "(", "1", "+", "1", ")">>,
   <<"l", "i", "n", "e", "a", "r", "_", "i", "n", "t", "e", "r", "p", "o", "l", "a", "t", "e", "(", "v", ",", "w", ",", "1", ")">>,
   <<"l", "i", "n", "e", "a", "r", "_", "i", "n", "t", "e", "r", "p", "o", "l", "a", "t", "e", "(", "w", ",", "v", ",", "1", "5", "0", ")">>,
   <<"l", "i", "n", "e", "a", "r", "_", "i", "n", "t", "e", "r", "p", "o", "l", "a", "t", "e", "(", "v", "[", "0", "]", ",", "w", ",", "1", ")">>,
   <<"l", "i", "n", "e", "a", "r", "_", "i", "n", "t", "e", "r", "p", "o", "l", "a", "t", "e", "(", "v", ",", "1", ",", "1", ")">>,
   <<"1", "+", "v">>,
   <<"1", "+", "1">>,
   <<"-", "(", "1", "+", "1", ")", "*", "v">>,
   <<"(", "1", ",", "v", ")">>,
   <<"v", "[", "0", "]", "+", "v", "[", "1", "]">>,
   <<"f", "(", "1", "+", "1", ",", "v", ")">>,
   <<"g", "(", "1", "+", "1", ")">>,
   <<"g", "(", "v", ")">>,
   <<"k", "(", "1", "+", "1", ",", "1", ")">>,
   <<"h", "(", "1", ",", "1", ",", "v", ")">>,
   <<"a", "b", "s", "(", "-", "1", ")", "+", "v", "*", "(", "1", "+", "1", ")">>,
   <<"1", "+", "1", "+", "v">>}

Inputs == Texts(MaxLexemes) \cup ParseInputs

DataVals == {Int2D(-1), Int2D(1), Int2D(2)}

\* The contents v can have: a length within its capacity, then MaxLen data.
VStores ==
  {<<Int2D(len)>> \o d : len \in 0..MaxLen, d \in [1..MaxLen -> DataVals]}

WStore == <<Int2D(2), Int2D(100), Int2D(200)>>

\* What the conversion of a NaN to int yields: INT_MIN on x86, 0 on AArch64.
Builds == {[badcast |-> INT_MIN], [badcast |-> 0]}

None == [k |-> "none", n |-> 0, d |-> 1]

NoTree == [tree |-> EmptyHeap(0), parsed |-> 0, next |-> 0, type |-> TOK_NULL, late |-> 0]

InitCommon ==
  /\ pc = "start"
  /\ root = 0
  /\ error = 0
  /\ heap = EmptyHeap(0)
  /\ raw = NoTree
  /\ result = None
  /\ build \in Builds

Init ==
  /\ InitCommon
  /\ text \in Inputs
  /\ mem = [v |-> <<Int2D(MaxLen)>> \o [i \in 1..MaxLen |-> Int2D(i)], w |-> WStore]

InitEval ==
  /\ InitCommon
  /\ text \in EvalInputs
  /\ mem \in {[v |-> vs, w |-> WStore] : vs \in VStores}

\* The caller calls te_compile(text, variables, count, &error).
Compile ==
  /\ pc = "start"
  /\ \E c \in {te_compile(text, variables, heap.failAt, mem, build)} :
       /\ root' = c.root
       /\ error' = c.error
       /\ heap' = c.heap
       /\ raw' = [tree |-> c.tree, parsed |-> c.parsed, next |-> c.s.next,
                  type |-> c.s.type, late |-> c.s.late]
  /\ pc' = "compiled"
  /\ UNCHANGED <<text, mem, result, build>>

\* The caller calls te_eval(root), as the test driver does even for NULL.
Eval ==
  /\ pc = "compiled"
  /\ result' = te_eval(heap, root, mem, build)
  /\ heap' = Reading(heap, root)
  /\ UNCHANGED <<text, pc, root, error, raw, mem, build>>

\* The caller stores a double in v; the length element stays within the
\* capacity.  result holds the last value evaluated since the last store.
Write ==
  /\ pc = "compiled"
  /\ \E i \in 0..MaxLen, x \in DataVals \cup {Int2D(len) : len \in 0..MaxLen} :
       /\ i = 0 => x \in {Int2D(len) : len \in 0..MaxLen}
       /\ i > 0 => x \in DataVals
       /\ mem' = [mem EXCEPT !.v[i + 1] = x]
       /\ mem' # mem
  /\ result' = None
  /\ UNCHANGED <<text, pc, root, error, heap, raw, build>>

\* The caller calls te_free(root).
Free ==
  /\ pc = "compiled"
  /\ heap' = te_free(heap, root)
  /\ pc' = "freed"
  /\ UNCHANGED <<text, root, error, raw, mem, result, build>>

Next == Compile \/ Eval \/ Free

Spec == Init /\ [][Next]_vars

NextEval == Compile \/ Write \/ Eval \/ Free

SpecEval == InitEval /\ [][NextEval]_vars

\* The storage te_compile sees when the caller compiles once and then
\* stores and evaluates in any order.
FirstStore == [v |-> <<Int2D(MaxLen)>> \o [i \in 1..MaxLen |-> Int2D(1)], w |-> WStore]

InitWrite ==
  /\ InitCommon
  /\ text \in EvalInputs
  /\ mem = FirstStore

SpecWrite == InitWrite /\ [][NextEval]_vars

(***************************************************************************)
(* The bitwise test driver (main of src/tinyexpr.c) compiles, evaluates    *)
(* and frees the expressions of BitTable.  OperandInputs apply each        *)
(* bitwise callable to the scalars v and w, which the caller sets to every *)
(* pair of BitVals: values below zero that round to zero or below it,      *)
(* values that round up or down to small integers, and an infinity, which  *)
(* stands for every operand above MAX_BITWISE_VALUE.                       *)
(***************************************************************************)
BitTable ==
  {<<"5", " ", "&", " ", "3">>,
   <<"5", " ", "|", " ", "2">>,
   <<"b", "i", "t", "(", "5", ",", " ", "0", ")">>,
   <<"b", "i", "t", "(", "5", ",", " ", "1", ")">>,
   <<"b", "i", "t", "(", "5", ",", " ", "2", ")">>,
   <<"x", "o", "r", "(", "5", ",", " ", "3", ")">>,
   <<"b", "i", "t", "(", "1", "0", "2", "4", ",", " ", "1", "0", ")">>,
   <<"b", "i", "t", "(", "1", "0", "2", "4", ",", " ", "9", ")">>,
   <<"x", "o", "r", "(", "2", "5", "5", ",", " ", "1", "7", "0", ")">>,
   <<"5", " ", "&", " ", "-", "1">>,
   <<"2", "^", "1", "0">>,
   <<"5", " ", "|", " ", "(", "1", " ", "<", "<", " ", "5", "3", ")">>}

OperandInputs ==
  {<<"v", "&", "w">>,
   <<"v", "|", "w">>,
   <<"x", "o", "r", "(", "v", ",", "w", ")">>}

BitVals ==
  {Int2D(-1), Num(-1, 2), Num(-1, 4), Int2D(0), Num(1, 4), Num(1, 2), Int2D(1),
   Num(3, 2), Int2D(3), Int2D(5), Int2D(6), Inf(1), NaN}

InitBits ==
  /\ InitCommon
  /\ text \in BitTable \cup OperandInputs
  /\ mem \in {[v |-> <<a>>, w |-> <<b>>] : a, b \in BitVals}

SpecBits == InitBits /\ [][Next]_vars

(***************************************************************************)
(* Operator expressions: operands joined by up to MaxOps binary operators, *)
(* each operand with or without a sign, and no parentheses.  Operand i is  *)
(* the i-th of OperandNames, so that every leaf of the tree tells the      *)
(* place of its operand in the text.  v and w are scalars here.            *)
(***************************************************************************)
MaxOps == 2

OpChars == {"+", "-", "*", "/", "%", "&", "|", "^"}

OperandNames == <<"v", "w", "2", "3", "5">>

SignedOperand(i, neg) ==
  IF neg THEN <<"-", OperandNames[i]>> ELSE <<OperandNames[i]>>

RECURSIVE Flat(_, _, _)
Flat(ops, signs, k) ==
  IF k = 0 THEN SignedOperand(1, signs[1])
  ELSE Flat(ops, signs, k - 1) \o <<ops[k]>> \o SignedOperand(k + 1, signs[k + 1])

FlatTexts ==
  UNION {{Flat(ops, signs, k) : ops \in [1..k -> OpChars], signs \in [1..(k + 1) -> BOOLEAN]}
         : k \in 0..MaxOps}

ExampleTexts ==
  {<<"1", "+", "2", "*", "3">>,
   <<"(", "1", "+", "2", ")", "*", "3">>}

OpStores ==
  {[v |-> <<Int2D(3)>>, w |-> <<Int2D(2)>>], [v |-> <<Num(-1, 2)>>, w |-> <<Int2D(0)>>]}

InitOps ==
  /\ InitCommon
  /\ text \in FlatTexts \cup ExampleTexts
  /\ mem \in OpStores

SpecOps == InitOps /\ [][Next]_vars

(***************************************************************************)
(* Identifiers: every name of the built-in table and of the caller's       *)
(* table, their strict prefixes, their extensions by one character, and    *)
(* names that differ in case; each alone and as an operand.                *)
(***************************************************************************)
KnownNames ==
  {functions[i].name : i \in 1..Len(functions)} \cup {variables[i].name : i \in 1..Len(variables)}

Identifiers ==
  KnownNames
    \cup UNION {{SubSeq(n, 1, k) : k \in 1..Len(n)} : n \in KnownNames}
    \cup {n \o <<c>> : n \in KnownNames, c \in {"x", "1", "_"}}
    \cup {<<"S", "i", "n">>, <<"V">>, <<"A", "b", "s">>}

NameTexts == Identifiers \cup {<<"2", "*">> \o id : id \in Identifiers}

InitNames ==
  /\ InitCommon
  /\ text \in NameTexts
  /\ mem = [v |-> <<Int2D(MaxLen)>> \o [i \in 1..MaxLen |-> Int2D(i)], w |-> WStore]

SpecNames == InitNames /\ [][Next]_vars

(***************************************************************************)
(* Allocation failure: malloc returns NULL at its call number failAt, for  *)
(* every failAt up to MaxAllocs, during the te_compile of each input.      *)
(***************************************************************************)
MaxAllocs == 6

InitAlloc ==
  /\ pc = "start"
  /\ root = 0
  /\ error = 0
  /\ raw = NoTree
  /\ result = None
  /\ build \in Builds
  /\ text \in ParseInputs \cup EvalInputs
  /\ mem = FirstStore
  /\ heap \in {EmptyHeap(failAt) : failAt \in 1..MaxAllocs}

SpecAlloc == InitAlloc /\ [][Next]_vars

(***************************************************************************)
(* Interpolation: linear_interpolate(v, w, x) for every domain v of three  *)
(* elements or fewer over LerpVals, in any order, ranges w of two and of   *)
(* three elements, and literals x below, at, between and above them.       *)
(***************************************************************************)
LerpVals == {Int2D(1), Int2D(2), Int2D(3)}

LerpDomains == {<<Int2D(len)>> \o d : len \in 0..3, d \in [1..3 -> LerpVals]}

LerpRanges ==
  {<<Int2D(3), Int2D(10), Int2D(20), Int2D(40)>>,
   <<Int2D(2), Int2D(10), Int2D(20), Int2D(40)>>,
   <<Int2D(1), Int2D(10), Int2D(20), Int2D(40)>>}

LerpInputs ==
  {<<"l", "i", "n", "e", "a", "r", "_", "i", "n", "t", "e", "r", "p", "o", "l", "a", "t", "e", "(", "v", ",", "w", ",", "0", ")">>,
   <<"l", "i", "n", "e", "a", "r", "_", "i", "n", "t", "e", "r", "p", "o", "l", "a", "t", "e", "(", "v", ",", "w", ",", "1", ")">>,
   <<"l", "i", "n", "e", "a", "r", "_", "i", "n", "t", "e", "r", "p", "o", "l", "a", "t", "e", "(", "v", ",", "w", ",", "1", ".", "5", ")">>,
   <<"l", "i", "n", "e", "a", "r", "_", "i", "n", "t", "e", "r", "p", "o", "l", "a", "t", "e", "(", "v", ",", "w", ",", "2", ")">>,
   <<"l", "i", "n", "e", "a", "r", "_", "i", "n", "t", "e", "r", "p", "o", "l", "a", "t", "e", "(", "v", ",", "w", ",", "2", ".", "5", ")">>,
   <<"l", "i", "n", "e", "a", "r", "_", "i", "n", "t", "e", "r", "p", "o", "l", "a", "t", "e", "(", "v", ",", "w", ",", "3", ")">>,
   <<"l", "i", "n", "e", "a", "r", "_", "i", "n", "t", "e", "r", "p", "o", "l", "a", "t", "e", "(", "v", ",", "w", ",", "4", ")">>}

InitLerp ==
  /\ InitCommon
  /\ text \in LerpInputs
  /\ mem \in {[v |-> d, w |-> r] : d \in LerpDomains, r \in LerpRanges}

SpecLerp == InitLerp /\ [][Next]_vars

(***************************************************************************)
(* Properties.  Returned: te_compile has returned to the caller.           *)
(***************************************************************************)
Returned == pc # "start"

\* te_compile has returned a tree, which the caller has not freed yet.
Compiled == pc = "compiled" /\ root # 0

Max(a, b) == IF a >= b THEN a ELSE b

\* C1: after te_compile returns, the reported error is 0 if and only if the
\* returned tree is not NULL, on every exit path.
C1_ErrorZeroIffTree == Returned => (error = 0 <=> root # 0)

\* The exit path on which the parser itself returned NULL.
C1_ParserReturnedNull == pc = "compiled" /\ raw.parsed = 0 /\ root = 0 /\ error # 0

\* C2: whenever te_compile fails (no allocation fails here, so for a
\* syntactic reason) it returns NULL and the reported error is a 1-based
\* offset into the input: at least 1 and at most max(1, length).
C2_ErrorIsOffset == (Returned /\ root = 0) => error \in 1..Max(1, Len(text))

\* C3: no node is leaked: nothing stays allocated after a failed
\* te_compile, nor after te_free(root) of a successful one.
C3_NoLeak == ((Returned /\ root = 0) \/ pc = "freed") => heap.live = {}

\* The nodes of the tree at n (0: the empty tree).
RECURSIVE NodesOf(_, _)
NodesOf(h, n) ==
  IF n = 0 THEN {}
  ELSE {n} \cup UNION {NodesOf(h, h.nodes[n].parameters[i]) : i \in 1..ARITY(h.nodes[n].type)}

\* The tree at n holds literals and pure calls only: no variable, no
\* array-index node, no impure function or closure.
Foldable(h, n) ==
  \A m \in NodesOf(h, n) :
    \/ h.nodes[m].type = TE_CONSTANT
    \/ IS_PURE(h.nodes[m].type) /\ TYPE_MASK(h.nodes[m].type) \in TE_FUNCTION0..TE_CLOSURE7

\* The root of the tree list built, before optimize.
Parsed == raw.tree.nodes[raw.parsed]

\* C4: an expression that compiles and holds no variable and no impure call
\* comes back as a single constant node: every other node has been freed.
C4_FoldsToOneConstant ==
  (Compiled /\ Foldable(raw.tree, raw.parsed))
    => heap.nodes[root].type = TE_CONSTANT /\ heap.live = {root}

\* A nested constant expression has been folded.
C4_NestedFolded ==
  /\ Compiled /\ Foldable(raw.tree, raw.parsed)
  /\ \E m \in NodesOf(raw.tree, raw.parsed) \ {raw.parsed} : raw.tree.nodes[m].type # TE_CONSTANT

\* C5: folding preserves the value under every binding of the variables,
\* and touches only foldable subtrees: a node that is, or holds, a variable,
\* an array-index node or an impure call stays allocated and unchanged.
C5_FoldingPreservesValue ==
  (Compiled) =>
    /\ te_eval(heap, root, mem, build) = te_eval(raw.tree, raw.parsed, mem, build)
    /\ \A n \in NodesOf(raw.tree, raw.parsed) :
         /\ ~Foldable(raw.tree, n) => n \in heap.live /\ heap.nodes[n] = raw.tree.nodes[n]
         /\ (n \in heap.live /\ heap.nodes[n] # raw.tree.nodes[n])
              => /\ IS_PURE(raw.tree.nodes[n].type)
                 /\ heap.nodes[n].type = TE_CONSTANT
                 /\ heap.nodes[n].value = te_eval(raw.tree, n, mem, build)

\* A tree with a variable, one subtree of which has been folded, evaluated
\* after the variable was given its value.
C5_PartlyFolded ==
  /\ Compiled /\ result # None
  /\ ~Foldable(raw.tree, raw.parsed)
  /\ \E n \in NodesOf(raw.tree, raw.parsed) :
       n \in heap.live /\ heap.nodes[n] # raw.tree.nodes[n]

\* What arr[i] is to be: the data element trunc(i), counted from 0, when
\* trunc(i) lies in [0, L), L the length in element 0, and NaN otherwise.
ArrayRead(arr, i) ==
  IF IsNum(i) /\ Trunc(i) >= 0 /\ Trunc(i) < Trunc(arr[1]) THEN arr[Trunc(i) + 2] ELSE NaN

\* The expression is arr[i], and has been evaluated since the last store.
IndexEvaluated == Compiled /\ heap.nodes[root].type = TE_ARRAY /\ result # None

\* The value of the index i of the expression arr[i].
IndexValue == te_eval(heap, heap.nodes[root].parameters[1], mem, build)

\* C6: arr[i] is NaN if and only if trunc(i) lies outside [0, L), and is
\* data element trunc(i) otherwise, for every index value i.
C6_IndexInRangeOrNaN ==
  IndexEvaluated => result = ArrayRead(mem[heap.nodes[root].bound], IndexValue)

\* The expression is a call of sum, arrlen, arrmin or arrmax (a call of
\* linear_interpolate), and has been evaluated since the last store.
AggregateEvaluated ==
  /\ Compiled /\ result # None
  /\ TYPE_MASK(Parsed.type) = TE_FUNCTION1 /\ Parsed.function \in Aggregates

LerpEvaluated ==
  /\ Compiled /\ result # None
  /\ TYPE_MASK(Parsed.type) = TE_FUNCTION3 /\ Parsed.function = "te_lerp"

\* The node of argument i (from 1) of the call.
ArgNode(i) == raw.tree.nodes[Parsed.parameters[i]]

\* The data of an array: elements 1..L.
Data(arr) == {arr[i + 1] : i \in 1..Trunc(arr[1])}

RECURSIVE SumOf(_, _)
SumOf(arr, len) == IF len = 0 THEN Int2D(0) ELSE add(SumOf(arr, len - 1), arr[len + 1])

\* What the call is to return when its argument is the variable bound to arr.
AggregateOf(f, arr) ==
  CASE f = "te_sum"    -> {SumOf(arr, Trunc(arr[1]))}
    [] f = "te_arrlen" -> {arr[1]}
    [] f = "te_arrmin" -> {m \in Data(arr) : \A x \in Data(arr) : ~Less(x, m)}
    [] f = "te_arrmax" -> {m \in Data(arr) : \A x \in Data(arr) : ~Less(m, x)}

\* C9: an array-consuming built-in is given the bound pointer of an argument
\* that is a variable node: sum is the sum of the data, arrlen the length,
\* arrmin and arrmax the least and greatest data element (of a non-empty
\* array); with any other argument node the call is NaN.
C9_ArrayArgumentsByReference ==
  /\ AggregateEvaluated =>
       IF ArgNode(1).type = TE_VARIABLE
       THEN Trunc(mem[ArgNode(1).bound][1]) >= 1 \/ Parsed.function \in {"te_sum", "te_arrlen"}
              => result \in AggregateOf(Parsed.function, mem[ArgNode(1).bound])
       ELSE result = NaN
  /\ LerpEvaluated =>
       IF ArgNode(1).type = TE_VARIABLE /\ ArgNode(2).type = TE_VARIABLE
       THEN result = te_lerp(mem[ArgNode(1).bound], mem[ArgNode(2).bound],
                             te_eval(raw.tree, Parsed.parameters[3], mem, build), build)
       ELSE result = NaN

\* arrmax of a variable bound to an array of two elements has been evaluated.
C9_MaxOfArray ==
  /\ AggregateEvaluated /\ Parsed.function = "te_arrmax"
  /\ ArgNode(1).type = TE_VARIABLE /\ Trunc(mem[ArgNode(1).bound][1]) = 2

\* sum, arrmin or arrmax of a variable bound to an empty array has been
\* evaluated.
EmptyAggregate ==
  /\ AggregateEvaluated /\ Parsed.function \in {"te_sum", "te_arrmin", "te_arrmax"}
  /\ ArgNode(1).type = TE_VARIABLE /\ mem[ArgNode(1).bound][1] = Int2D(0)

\* C10 as stated: sum, arrmin and arrmax of an empty array are all NaN.
C10_EmptyAggregateIsNaN == EmptyAggregate => result = NaN

\* C10: arrmin and arrmax of an empty array are NaN; sum of an empty array
\* is 0.
C10_EmptyMinMaxNaNSumZero ==
  EmptyAggregate => result = (IF Parsed.function = "te_sum" THEN Int2D(0) ELSE NaN)

\* arrmin of an empty array has been evaluated.
C10_EmptyMin == EmptyAggregate /\ Parsed.function = "te_arrmin"

\* The tokens of a text, up to and with the first end or error token, or
\* the first token that consumes nothing (a "." that starts no number).
RECURSIVE TokensFrom(_)
TokensFrom(s) ==
  IF s.type \in {TOK_END, TOK_ERROR} THEN <<s.type>>
  ELSE The({ IF s1.next = s.next THEN <<s.type, s1.type>>
             ELSE <<s.type>> \o TokensFrom(s1)
             : s1 \in {next_token(s)} })

Tokens(t) == TokensFrom(next_token(NewState(t, variables)))

\* The nesting depth after token i of tk, counted from token 2.
Depth(tk, i) ==
  Cardinality({j \in 2..i : tk[j] \in {TOK_OPEN, TOK_OPEN_BRACKET}})
    - Cardinality({j \in 2..i : tk[j] \in {TOK_CLOSE, TOK_CLOSE_BRACKET}})

\* tk is a call: a function or closure name, "(", an argument list, the ")"
\* that matches, and the end.
IsCall(tk) ==
  /\ Len(tk) >= 4
  /\ tk[1] \notin TOK_NULL..TOK_CLOSE_BRACKET
  /\ TYPE_MASK(tk[1]) \in TE_FUNCTION0..TE_CLOSURE7
  /\ tk[2] = TOK_OPEN /\ tk[Len(tk) - 1] = TOK_CLOSE /\ tk[Len(tk)] = TOK_END
  /\ \A i \in 2..(Len(tk) - 2) : Depth(tk, i) >= 1
  /\ Depth(tk, Len(tk) - 1) = 0

\* The number of comma-separated expressions between the parentheses.
ArgCount(tk) ==
  IF Len(tk) = 4 THEN 0
  ELSE 1 + Cardinality({i \in 3..(Len(tk) - 2) : tk[i] = TOK_SEP /\ Depth(tk, i) = 1})

\* A call of a function or closure of an arity in arities, written with a
\* number of arguments that is not its arity, has been compiled.
MismatchedCall(arities) ==
  /\ Returned /\ IsCall(Tokens(text))
  /\ ARITY(Tokens(text)[1]) \in arities
  /\ ArgCount(Tokens(text)) # ARITY(Tokens(text)[1])

\* C7 as stated: a call with a number of arguments other than the arity N,
\* N in 1..7, is rejected.
C7_ArityEnforcedFrom1 == MismatchedCall(1..7) => root = 0 /\ error # 0

\* C7: a call with a number of arguments other than the arity N, N in 2..7,
\* is rejected; a function of arity 1 takes one power, which a parenthesised
\* comma list is.
C7_ArityEnforcedFrom2 ==
  /\ MismatchedCall(2..7) => root = 0 /\ error # 0
  /\ (MismatchedCall({1}) /\ root # 0) => ArgCount(Tokens(text)) >= 2

\* A call of a function of arity 2 or more with one argument too many.
C7_OneTooMany ==
  /\ MismatchedCall(2..7) /\ ArgCount(Tokens(text)) = ARITY(Tokens(text)[1]) + 1

\* te_compile of a text, as the caller calls it.
CompileOf(t) == te_compile(t, variables, 0, mem, build)

\* The text is a variable followed by bracket groups, and compiles.
IsChain ==
  /\ Compiled
  /\ Tokens(text)[1] = TOK_VARIABLE
  /\ TYPE_MASK(Parsed.type) \in {TE_VARIABLE, TE_ARRAY}

\* The tree c of te_compile is an array-index node bound to b.
IndexNode(c, b) ==
  /\ c.root # 0
  /\ c.heap.nodes[c.root].type = TE_ARRAY
  /\ c.heap.nodes[c.root].bound = b
  /\ c.heap.nodes[c.root].parameters[1] # 0

\* C8 as stated: one more bracket group after a chain that compiles
\* compiles, to an array-index node with the bound pointer of its left
\* operand.
C8_AnyNumberOfGroups ==
  IsChain => IndexNode(CompileOf(text \o <<"[", "1", "]">>), Parsed.bound)

\* C8: exactly one bracket group is accepted after a variable: for every
\* index expression that compiles, v[index] is an array-index node with the
\* bound pointer of v; a bracket group after an array-index node is
\* rejected.
C8_ExactlyOneGroup ==
  /\ Compiled => IndexNode(CompileOf(<<"v", "[">> \o text \o <<"]">>), "v")
  /\ (IsChain /\ Parsed.type = TE_ARRAY) => CompileOf(text \o <<"[", "1", "]">>).root = 0
  /\ (IsChain /\ Parsed.type = TE_VARIABLE)
       => IndexNode(CompileOf(text \o <<"[", "1", "]">>), Parsed.bound)

\* A variable with one bracket group has been compiled.
C8_OneGroupCompiled == IsChain /\ Parsed.type = TE_ARRAY

\* The expression is v op w, op one of &, | and xor, and has been
\* evaluated.
BitwiseEvaluated ==
  /\ Compiled /\ result # None
  /\ Parsed.type = TE_FUNCTION2 + TE_FLAG_PURE
  /\ Parsed.function \in {"bitwise_and", "bitwise_or", "fn_xor"}
  /\ ArgNode(1).type = TE_VARIABLE /\ ArgNode(2).type = TE_VARIABLE

\* The value of operand i of v op w.
Operand_(i) == mem[ArgNode(i).bound][1]

OpOf ==
  [f \in {"bitwise_and", "bitwise_or", "fn_xor"} |->
     CASE f = "bitwise_and" -> "and" [] f = "bitwise_or" -> "or" [] f = "fn_xor" -> "xor"]

\* r is a op b of the naturals a and b taken as unsigned integers of
\* MAX_BITWISE_WIDTH bits.
IsBitwise(r, op, a, b) ==
  /\ IsNum(r) /\ r.d = 1 /\ r.n >= 0 /\ BitLen(r.n) <= MAX_BITWISE_WIDTH
  /\ \A i \in 0..(MAX_BITWISE_WIDTH - 1) : BitAt(r.n, i) = BitOf(op, BitAt(a, i), BitAt(b, i))

\* The operand, rounded to nearest, is negative or exceeds 2^53 - 1 (or is
\* no number at all).
RoundedOutOfRange(x) ==
  ~IsNum(x) \/ Round(x) < 0 \/ BitLen(Round(x)) > MAX_BITWISE_WIDTH

\* The operand is negative, or rounded to nearest exceeds 2^53 - 1 (or is
\* no number at all).
OutOfRange(x) ==
  ~IsNum(x) \/ x.n < 0 \/ BitLen(Round(x)) > MAX_BITWISE_WIDTH

\* C11 as stated: a op b is NaN if and only if an operand rounded to nearest
\* is negative or exceeds 2^53 - 1, so that an operand in (-0.5, 0) does not
\* make it NaN; otherwise it is the bitwise op of the rounded operands.
C11_NaNIffRoundedOutOfRange ==
  BitwiseEvaluated =>
    IF RoundedOutOfRange(Operand_(1)) \/ RoundedOutOfRange(Operand_(2)) THEN result = NaN
    ELSE IsBitwise(result, OpOf[Parsed.function], Round(Operand_(1)), Round(Operand_(2)))

\* C11: a op b is NaN if and only if an operand is negative (before
\* rounding: an operand in (-0.5, 0) makes it NaN) or, rounded to nearest,
\* exceeds 2^53 - 1; otherwise it is the bitwise op of the rounded operands
\* as 53-bit unsigned integers.  5 & -1 is NaN.
C11_NaNIffNegativeOrTooLarge ==
  /\ BitwiseEvaluated =>
       IF OutOfRange(Operand_(1)) \/ OutOfRange(Operand_(2)) THEN result = NaN
       ELSE IsBitwise(result, OpOf[Parsed.function], Round(Operand_(1)), Round(Operand_(2)))
  /\ (Compiled /\ text = <<"5", " ", "&", " ", "-", "1">>) => heap.nodes[root].value = NaN

\* An operand in (-0.5, 0), which rounds to zero, with a valid one.
C11_SmallNegativeOperand ==
  /\ BitwiseEvaluated
  /\ Operand_(1).n < 0 /\ IsNum(Operand_(1)) /\ Round(Operand_(1)) = 0
  /\ ~OutOfRange(Operand_(2))

\* C16: every expression of the bitwise test table compiles, and
\* 5 | (1 << 53), once compiled, evaluates to NaN.
C16_BitTableCompiles ==
  (Returned /\ text \in BitTable) =>
    /\ root # 0 /\ error = 0
    /\ (text = <<"5", " ", "|", " ", "(", "1", " ", "<", "<", " ", "5", "3", ")">> /\ result # None) => result = NaN

\* The precedence level of a binary operator, loosest first, and the
\* character it is written with.
OpLevel ==
  [f \in {"add", "sub", "mul", "divide", "fmod", "bitwise_and", "bitwise_or", "pow"} |->
     IF f \in {"add", "sub"} THEN 1 ELSE IF f = "pow" THEN 3 ELSE 2]

OpChar ==
  [f \in DOMAIN OpLevel |-> CHOOSE c \in DOMAIN InfixOf : InfixOf[c] = f]

IsOperator(nd) == nd.type = TE_FUNCTION2 + TE_FLAG_PURE /\ nd.function \in DOMAIN OpLevel

IsNegate(nd) == nd.type = TE_FUNCTION1 + TE_FLAG_PURE /\ nd.function = "negate"

\* The text a tree of operators, signs, variables and one-digit literals
\* stands for when no parentheses are written.
RECURSIVE InOrder(_, _)
InOrder(h, n) ==
  IF IsOperator(h.nodes[n])
  THEN InOrder(h, h.nodes[n].parameters[1]) \o <<OpChar[h.nodes[n].function]>>
         \o InOrder(h, h.nodes[n].parameters[2])
  ELSE IF IsNegate(h.nodes[n]) THEN <<"-">> \o InOrder(h, h.nodes[n].parameters[1])
  ELSE IF h.nodes[n].type = TE_VARIABLE THEN <<h.nodes[n].bound>>
  ELSE IF h.nodes[n].type = TE_CONSTANT /\ h.nodes[n].value \in {Int2D(i) : i \in 0..9}
       THEN <<CHOOSE c \in Digits : DigitVal[c] = h.nodes[n].value.n>>
  ELSE <<"?">>

\* The operator node n of h groups as precedence and left associativity
\* demand: its right operand is no operator of its own or a looser level,
\* its left operand no operator of a looser level.
GroupsLeft(h, n) ==
  /\ IsOperator(h.nodes[h.nodes[n].parameters[2]])
       => OpLevel[h.nodes[h.nodes[n].parameters[2]].function] > OpLevel[h.nodes[n].function]
  /\ IsOperator(h.nodes[h.nodes[n].parameters[1]])
       => OpLevel[h.nodes[h.nodes[n].parameters[1]].function] >= OpLevel[h.nodes[n].function]

\* The sign node n of h applies to one operand.
SignOfOperand(h, n) ==
  h.nodes[h.nodes[n].parameters[1]].type \in {TE_VARIABLE, TE_CONSTANT}

\* C12: three left-associative levels of binary operators, + - loosest,
\* then * / % & |, then ^, and a sign that binds tighter than ^: every
\* expression without parentheses compiles to the tree that reads back as
\* the text and in which every operator groups by level and to the left
\* and every sign applies to a single operand; 1+2*3 is 7, (1+2)*3 is 9.
C12_PrecedenceAndAssociativity ==
  /\ (Returned /\ text \in FlatTexts) =>
       /\ root # 0
       /\ InOrder(raw.tree, raw.parsed) = text
       /\ \A n \in NodesOf(raw.tree, raw.parsed) :
            /\ IsOperator(raw.tree.nodes[n]) => GroupsLeft(raw.tree, n)
            /\ IsNegate(raw.tree.nodes[n]) => SignOfOperand(raw.tree, n)
  /\ (Compiled /\ text = <<"1", "+", "2", "*", "3">>) => heap.nodes[root].value = Int2D(7)
  /\ (Compiled /\ text = <<"(", "1", "+", "2", ")", "*", "3">>) => heap.nodes[root].value = Int2D(9)

\* A looser operator, then a tighter one with a signed operand: the second
\* operator is the right operand of the first, as in v+w*-2.
C12_TighterOnTheRight ==
  /\ Returned /\ text \in FlatTexts /\ root # 0
  /\ IsOperator(Parsed) /\ IsOperator(ArgNode(2))
  /\ IsNegate(raw.tree.nodes[ArgNode(2).parameters[2]])

\* The identifier of a text of NameTexts.
IdentOf(t) ==
  IF Len(t) >= 2 /\ t[1] = "2" /\ t[2] = "*" THEN SubSeq(t, 3, Len(t)) ELSE t

\* The token next_token makes of an identifier.
IdentTok(id) == next_token(NewState(id, variables))

CallerMatches(id) == {i \in 1..Len(variables) : variables[i].name = id}

BuiltinMatches(id) == {i \in 1..Len(functions) : functions[i].name = id}

\* The entry an identifier is to resolve to: the first of the caller's
\* entries of that name, else the built-in of that name, else none.
Resolved(id) ==
  IF CallerMatches(id) # {}
  THEN variables[CHOOSE i \in CallerMatches(id) : \A j \in CallerMatches(id) : i <= j]
  ELSE IF BuiltinMatches(id) # {} THEN functions[The(BuiltinMatches(id))]
  ELSE NoVar

\* The token tok stands for the entry.
TokenFor(entry, tok) ==
  IF entry = NoVar THEN tok.type = TOK_ERROR
  ELSE IF entry.type = TE_VARIABLE THEN tok.type = TOK_VARIABLE /\ tok.bound = entry.address
  ELSE /\ tok.type = entry.type /\ tok.function = entry.address
       /\ IS_CLOSURE(entry.type) => tok.context = entry.context

\* C13: an identifier resolves to the first entry of the caller's table
\* whose name is exactly the identifier, else to the built-in of exactly
\* that name; an identifier that is neither (a strict prefix or an
\* extension of a name, a name in another case) is an error token, and
\* te_compile returns NULL.
C13_CallerFirstThenBuiltin ==
  (Returned /\ text \in NameTexts) =>
    /\ TokenFor(Resolved(IdentOf(text)), IdentTok(IdentOf(text)))
    /\ IdentTok(IdentOf(text)).next = Len(IdentOf(text))
    /\ Resolved(IdentOf(text)) = NoVar => root = 0 /\ error # 0

\* A name that is both in the caller's table and a built-in has been
\* compiled, as an operand.
C13_ShadowedBuiltin ==
  /\ Compiled /\ text \in NameTexts /\ IdentOf(text) # text
  /\ CallerMatches(IdentOf(text)) # {} /\ BuiltinMatches(IdentOf(text)) # {}

\* C14: a tree reads the bound storage when it is evaluated: every te_eval
\* of a compiled tree returns the value of the expression as list parsed it
\* under the storage as it is at the call (for the expression v, the
\* current v), and changes neither the tree nor the storage.
C14_ReadsStorageAtEvaluation ==
  [][(Eval /\ root # 0) =>
       /\ result' = te_eval(raw.tree, raw.parsed, mem, build)
       /\ text = <<"v">> => result' = mem.v[1]
       /\ heap' = heap /\ mem' = mem]_vars

\* A tree has been evaluated after a store, to a value other than the one
\* it had under the storage te_compile saw.
C14_EvaluatedAfterWrite ==
  /\ Compiled /\ result # None /\ mem # FirstStore
  /\ result # te_eval(raw.tree, raw.parsed, FirstStore, build)

\* An allocation failed during te_compile.
AllocationFailed == Returned /\ heap.failAt # 0 /\ heap.nalloc >= heap.failAt

\* C15: when an allocation fails during te_compile, at whatever site,
\* te_compile returns NULL and every node allocated before is freed.
C15_AllocationFailureFreesAll == AllocationFailed => root = 0 /\ heap.live = {}

\* a <= b on finite doubles.
AtMost(a, b) == a.n * b.d <= b.n * a.d

\* Element i (from 0) of the data of an array.
Elem(arr, i) == arr[i + 2]

\* x lies in segment i of the domain D of n elements, whose direction is
\* that of its ends.
InSegment(D, n, x, i) ==
  IF ~AtMost(Elem(D, n - 1), Elem(D, 0))
  THEN AtMost(Elem(D, i), x) /\ AtMost(x, Elem(D, i + 1))
  ELSE AtMost(x, Elem(D, i)) /\ AtMost(Elem(D, i + 1), x)

\* The value on segment i: the line through its ends, or the midpoint of
\* the range when the ends of the domain coincide.
OnSegment(D, Rg, x, i) ==
  IF Elem(D, i + 1) = Elem(D, i) THEN divide(add(Elem(Rg, i), Elem(Rg, i + 1)), Int2D(2))
  ELSE add(Elem(Rg, i),
           mul(divide(sub(x, Elem(D, i)), sub(Elem(D, i + 1), Elem(D, i))),
               sub(Elem(Rg, i + 1), Elem(Rg, i))))

\* What linear_interpolate(D, Rg, x) is to be.
Interpolated(D, Rg, x) ==
  IF Trunc(Rg[1]) # Trunc(D[1]) \/ Trunc(D[1]) < 2 THEN NaN
  ELSE IF \A i \in 0..(Trunc(D[1]) - 2) : ~InSegment(D, Trunc(D[1]), x, i) THEN NaN
  ELSE OnSegment(D, Rg, x,
                 CHOOSE i \in 0..(Trunc(D[1]) - 2) :
                   /\ InSegment(D, Trunc(D[1]), x, i)
                   /\ \A j \in 0..(i - 1) : ~InSegment(D, Trunc(D[1]), x, j))

\* The first n elements of D never decrease, or never increase.
Monotone(D, n) ==
  \/ \A i \in 0..(n - 2) : AtMost(Elem(D, i), Elem(D, i + 1))
  \/ \A i \in 0..(n - 2) : AtMost(Elem(D, i + 1), Elem(D, i))

\* x is below every, or above every, of the first n elements of D.
Outside(D, n, x) ==
  \/ \A i \in 0..(n - 1) : ~AtMost(Elem(D, i), x)
  \/ \A i \in 0..(n - 1) : ~AtMost(x, Elem(D, i))

\* The domain, the range and the abscissa of the call evaluated.
LerpD == mem[ArgNode(1).bound]

LerpR == mem[ArgNode(2).bound]

LerpX == te_eval(raw.tree, Parsed.parameters[3], mem, build)

\* C17: linear_interpolate(D, R, x) of two array variables is NaN when the
\* lengths differ, when the length is below 2 or when x lies in no segment;
\* otherwise it is the value on the first segment that holds x, the
\* direction being that of the ends of D.  For a monotone D it is NaN
\* exactly when x is outside [min(D), max(D)].
C17_Interpolation ==
  (LerpEvaluated /\ ArgNode(1).type = TE_VARIABLE /\ ArgNode(2).type = TE_VARIABLE) =>
    /\ result = Interpolated(LerpD, LerpR, LerpX)
    /\ (Trunc(LerpR[1]) = Trunc(LerpD[1]) /\ Trunc(LerpD[1]) >= 2
          /\ Monotone(LerpD, Trunc(LerpD[1])))
         => (result = NaN <=> Outside(LerpD, Trunc(LerpD[1]), LerpX))

\* An abscissa strictly inside the second segment of a descending domain of
\* three elements.
C17_DescendingSecondSegment ==
  /\ LerpEvaluated /\ result # NaN
  /\ Trunc(LerpD[1]) = 3 /\ Trunc(LerpR[1]) = 3
  /\ Less(Elem(LerpD, 2), LerpX) /\ Less(LerpX, Elem(LerpD, 1))
  /\ Less(Elem(LerpD, 1), Elem(LerpD, 0))

\* The node a syntax error leaves: new_expr(0, 0), bound to nothing.
IsPlaceholder(nd) == nd.type = TE_VARIABLE /\ nd.bound = "null"

\* Node nd has its children: a function or closure of arity N has N of
\* them, a closure its context after them, an array-index node its index
\* and a bound pointer.
HasChildren(nd) ==
  /\ \A i \in 1..ARITY(nd.type) : nd.parameters[i] # 0
  /\ IS_FUNCTION(nd.type) => Len(nd.parameters) = ARITY(nd.type)
  /\ IS_CLOSURE(nd.type) => Len(nd.parameters) = ARITY(nd.type) + 1
  /\ nd.type = TE_ARRAY => Len(nd.parameters) = 1 /\ nd.parameters[1] # 0
  /\ IS_CLOSURE(nd.type) => nd.parameters[ARITY(nd.type) + 1] < 0
  /\ TYPE_MASK(nd.type) \in TE_FUNCTION0..TE_CLOSURE7 => nd.function # "null"
  /\ nd.type = TE_ARRAY => nd.bound # "null"

\* C18: a tree te_compile returns is well formed: every node is allocated
\* and has the children of its arity, and none is the placeholder of a
\* syntax error; no token is read after the parser state became error, and
\* a parse that ends in error returns no tree.
C18_ReturnedTreeWellFormed ==
  /\ Compiled =>
       \A n \in NodesOf(heap, root) :
         n \in heap.live /\ HasChildren(heap.nodes[n]) /\ ~IsPlaceholder(heap.nodes[n])
  /\ Returned => raw.late = 0 /\ (raw.type = TOK_ERROR => root = 0)

\* A call of the closure of arity 2 has been compiled.
C18_ClosureCompiled ==
  /\ Compiled /\ IS_CLOSURE(heap.nodes[root].type) /\ ARITY(heap.nodes[root].type) = 2

\* Some "[" of the text follows a token that is not a variable name.
BracketAfterOther ==
  \E tk \in {Tokens(text)} :
    \E j \in 1..Len(tk) :
      tk[j] = TOK_OPEN_BRACKET /\ (j = 1 \/ tk[j - 1] # TOK_VARIABLE)

\* C19: a text in which "[" follows anything but a variable name is
\* rejected: te_compile returns NULL with a non-zero error and no node
\* stays allocated.
C19_IndexOnlyAfterVariable ==
  (Returned /\ BracketAfterOther) => root = 0 /\ error # 0 /\ heap.live = {}

\* strcmp(a, b) < 0: a comes before b in byte order.
RECURSIVE StrLess(_, _, _)
StrLess(a, b, k) ==
  IF OrdOf[CharAt(a, k)] # OrdOf[CharAt(b, k)] THEN OrdOf[CharAt(a, k)] < OrdOf[CharAt(b, k)]
  ELSE IF CharAt(a, k) = NUL THEN FALSE
  ELSE StrLess(a, b, k + 1)

\* The offset of the identifier in a text of NameTexts.
IdentAt(t) == Len(t) - Len(IdentOf(t))

\* find_builtin of the identifier of the text.
Found(t) == find_builtin(t, IdentAt(t), Len(IdentOf(t)))

\* The entries find_builtin compares the identifier of the text with.
Compared(t) == Probes(t, IdentAt(t), Len(IdentOf(t)), 0, Len(functions) - 1)

\* C20: the built-in table is in strictly ascending byte order of name;
\* find_builtin returns the entry of a built-in name given exactly that
\* name, and no entry for any other identifier (a strict prefix or an
\* extension of a name included); it compares with entries of the table
\* only, never with the terminating one, and with no entry twice.
C20_BinarySearchFindsExactNames ==
  /\ \A i \in 1..(Len(functions) - 1) : StrLess(functions[i].name, functions[i + 1].name, 0)
  /\ text \in NameTexts =>
       /\ BuiltinMatches(IdentOf(text)) # {} => Found(text) \in BuiltinMatches(IdentOf(text))
       /\ BuiltinMatches(IdentOf(text)) = {} => Found(text) = 0
       /\ \A k \in 1..Len(Compared(text)) : Compared(text)[k] \in 0..(Len(functions) - 1)
       /\ \A k, l \in 1..Len(Compared(text)) : Compared(text)[k] = Compared(text)[l] => k = l

\* A built-in name that another one extends has been looked up and
\* compiled, its search having compared with the longer name first.
C20_ShorterNameFound ==
  /\ Returned /\ IdentOf(text) = <<"l", "o", "g">>
  /\ functions[Found(text)].name = <<"l", "o", "g">>
  /\ \E k \in 1..Len(Compared(text)) :
       functions[Compared(text)[k] + 1].name = <<"l", "o", "g", "1", "0">>

\* C21: over te_compile (successful, failing on the syntax or on an
\* allocation), any number of te_eval and one te_free of the root, no node
\* is freed twice and none is read after it was freed: neither by the
\* parser's error paths, nor by optimize, nor by te_eval, which reaches live
\* nodes only, nor by te_free.
C21_NoDoubleFreeNoUseAfterFree ==
  /\ heap.dfree = 0 /\ heap.uaf = 0
  /\ raw.tree.dfree = 0 /\ raw.tree.uaf = 0
  /\ Compiled => Evaluated(heap, root) \subseteq heap.live

\* A tree whose root optimize folded, freeing its children, has been
\* evaluated and then freed.
C21_FoldedEvaluatedFreed ==
  /\ pc = "freed" /\ root # 0 /\ result # None
  /\ heap.nodes[root].type = TE_CONSTANT /\ Len(heap.nodes[root].parameters) > 0
  /\ heap.nodes[root].parameters[1] \notin heap.live

====
